---------------------------- MODULE Spec2Model ----------------------------
(***************************************************************************)
(* Model of nekro-sense's privileged command execution layer:              *)
(*   - run_privileged, the three-tier escalation procedure                 *)
(*     (tools/nekroctl_gui.py), specification EscSpec;                     *)
(*   - the debounced "instant apply" handlers of the GTK front-end         *)
(*     together with run_privileged_async, specification Spec;             *)
(*   - the nekroctl command line (tools/nekroctl.py) on the attribute      *)
(*     files, run from a shell and as the tiers of run_privileged,         *)
(*     specification CliSpec.                                              *)
(* Text is modelled by TLA+ strings; TLC evaluates Len, \o, Head, Tail and *)
(* SubSeq on them, so substring tests, strip() and lower() are computed    *)
(* character by character as Python computes them.                         *)
(***************************************************************************)
EXTENDS Integers, Sequences, FiniteSets, TLC

VARIABLES
    \* ---- run_privileged (one call) ----
    pc,                      \* "unpriv" | "sudo" | "pkexec" | "done"
    runs,                    \* the tiers executed so far, in order, with their (code, out, err)
    perm_denied,             \* local perm_denied, once computed
    sudo_requires_password,  \* local sudo_requires_password, once computed
    result,                  \* the returned (success, message), once returned
    \* ---- the GTK front-end, for the setting key the user works on ----
    key,                     \* "per_zone" | "effect" | "logo" | "fan" | "power" | "battery"
    path_exists,             \* path_exists(ctl.KB_PER_ZONE) / path_exists(ctl.KB_FOUR_MODE)
    widgets,                 \* the values of the key's input widgets
    timer_id,                \* per_zone_timer_id / effect_timer_id / logo_timer_id / fans_debounce_id
    source,                  \* the GLib timeout source behind timer_id: alive? ms until it is ready
    since_change,            \* GLib.get_monotonic_time() - *_last_change, in us, capped at the delay
    last_args,               \* last_per_zone_args / last_effect_args / last_logo_sig
    refreshing,              \* fans_refreshing / power_refreshing
    threads,                 \* the worker threads of run_privileged_async still in run_privileged
    idle,                    \* GLib.idle_add queue: on_done(ok, msg) calls not yet run
    fan_speed,               \* content of the fan_speed attribute
    status,                  \* the status label of the header: its text, its "error" class
    foreground,              \* the main thread: in the main loop, or in a call it waits in
    \* ---- history of the coalescer, for the properties ----
    burst,                   \* the intents since the settle timer last fired
    last_fire,               \* what the last firing of the settle timer did, until the next intent
    prev_fire,               \* the payload the settle timer last decided on
    applied,                 \* the payload of the last _done(ok = True), as Sig
    \* ---- the command line and the attribute files ----
    fs,                      \* the attribute files: path |-> content, for the paths that exist
    cli                      \* the nekroctl process that last exited: argv, exit code, output

escVars == <<pc, runs, perm_denied, sudo_requires_password, result>>

guiVars == <<key, path_exists, widgets, timer_id, source, since_change, last_args,
             refreshing, threads, idle, fan_speed, status, foreground>>

histVars == <<burst, last_fire, prev_fire, applied>>

cliVars == <<fs, cli>>

vars == <<pc, runs, perm_denied, sudo_requires_password, result,
          key, path_exists, widgets, timer_id, source, since_change, last_args,
          refreshing, threads, idle, fan_speed, status, foreground,
          burst, last_fire, prev_fire, applied, fs, cli>>

----------------------------------------------------------------------------
(* Python string primitives *)

Char(s, i) == SubSeq(s, i, i)

\* the lowercase of each ASCII uppercase letter
LowerOf ==
    [A |-> "a", B |-> "b", C |-> "c", D |-> "d", E |-> "e", F |-> "f", G |-> "g",
     H |-> "h", I |-> "i", J |-> "j", K |-> "k", L |-> "l", M |-> "m", N |-> "n",
     O |-> "o", P |-> "p", Q |-> "q", R |-> "r", S |-> "s", T |-> "t", U |-> "u",
     V |-> "v", W |-> "w", X |-> "x", Y |-> "y", Z |-> "z"]

DecimalDigits == "0123456789"
Whitespace == {" ", "\t", "\n", "\r"}

\* str.lower() on one character
lower_char(c) == IF c \in DOMAIN LowerOf THEN LowerOf[c] ELSE c

RECURSIVE lower(_)
\* str.lower(), half by half
lower(s) ==
    IF Len(s) = 0 THEN ""
    ELSE IF Len(s) = 1 THEN lower_char(s)
    ELSE lower(SubSeq(s, 1, Len(s) \div 2)) \o lower(SubSeq(s, Len(s) \div 2 + 1, Len(s)))

RECURSIVE lstrip(_)
lstrip(s) == IF s # "" /\ Head(s) \in Whitespace THEN lstrip(Tail(s)) ELSE s

RECURSIVE rstrip(_)
rstrip(s) ==
    IF s # "" /\ Char(s, Len(s)) \in Whitespace
    THEN rstrip(SubSeq(s, 1, Len(s) - 1))
    ELSE s

\* str.strip()
strip(s) == rstrip(lstrip(s))

\* needle in hay
Contains(needle, hay) ==
    \E i \in 1..(Len(hay) - Len(needle) + 1) :
        SubSeq(hay, i, i + Len(needle) - 1) = needle

RECURSIVE str(_)
\* str(n) for n >= 0
str(n) ==
    IF n < 10 THEN Char(DecimalDigits, n + 1)
    ELSE str(n \div 10) \o Char(DecimalDigits, (n % 10) + 1)

\* a or b, on strings
Or(a, b) == IF a # "" THEN a ELSE b

RECURSIVE Join(_, _)
\* sep.join(parts)
Join(sep, parts) ==
    IF parts = <<>> THEN ""
    ELSE IF Len(parts) = 1 THEN parts[1]
    ELSE parts[1] \o sep \o Join(sep, Tail(parts))

RECURSIVE Split(_, _)
\* s.split(sep), sep one character
Split(s, sep) ==
    IF \E i \in 1..Len(s) : Char(s, i) = sep
    THEN LET i == CHOOSE k \in 1..Len(s) :
                    Char(s, k) = sep /\ \A j \in 1..(k - 1) : Char(s, j) # sep
         IN  <<SubSeq(s, 1, i - 1)>> \o Split(SubSeq(s, i + 1, Len(s)), sep)
    ELSE <<s>>

IsDigits(s) ==
    /\ s # ""
    /\ \A i \in 1..Len(s) : \E d \in 1..Len(DecimalDigits) : Char(s, i) = Char(DecimalDigits, d)

DigitValue(c) == (CHOOSE d \in 1..Len(DecimalDigits) : Char(DecimalDigits, d) = c) - 1

RECURSIVE int(_)
\* int(s) for a string of decimal digits
int(s) ==
    IF Len(s) = 1 THEN DigitValue(s)
    ELSE 10 * int(SubSeq(s, 1, Len(s) - 1)) + DigitValue(Char(s, Len(s)))

\* int(v): the value, or ok = FALSE for ValueError
py_int(v) ==
    LET t   == strip(v)
        neg == t # "" /\ Head(t) = "-"
        d   == IF t # "" /\ Head(t) \in {"-", "+"} THEN Tail(t) ELSE t
    IN  IF IsDigits(d)
        THEN [ok |-> TRUE, value |-> IF neg THEN 0 - int(d) ELSE int(d)]
        ELSE [ok |-> FALSE, value |-> 0]

\* str(i) for any integer
py_str(i) == IF i < 0 THEN "-" \o str(0 - i) ELSE str(i)

----------------------------------------------------------------------------
(* What the external processes can answer: exit codes and raw output.      *)

ExitCodes == {0, 1, 3, 127}

Stdouts == {"", "OK: per-zone colors set\n"}

\* stderr of the CLI helper run without elevation
NekroctlStderrs ==
    { "",
      "Permission denied writing to /sys/kb. Try running with sudo/root.\n",
      "Error: [Errno 1] Operation not permitted: '/sys/kb'\n",
      "Error: Not Authorized\n",
      "polkit: Authentication is required\n",
      "You must be root\n",
      "Missing fan_speed at /sys/fan. Ensure the Nekro-Sense module is loaded.\n",
      "Error: permission was denied\n" }

\* stderr of `sudo -n ...`
SudoStderrs ==
    { "",
      "sudo: a password is required\n",
      "sudo: Password authentication needed\n",
      "sudo: the password is required\n",
      "sudo: no tty present and no askpass program specified\n",
      "sudo: Unable to authenticate\n",
      "sudo: sorry, you must have a tty to run sudo\n",
      "sudo: authentication failure\n",
      "sudo: 3 incorrect password attempts\n",
      "sudo: a terminal is required\n",
      "Permission denied writing to /sys/kb. Try running with sudo/root.\n" }

\* stderr of `pkexec ...`
PkexecStderrs ==
    { "",
      "Error executing command as another user: Not authorized\n" }

----------------------------------------------------------------------------
(* The three ways of running the helper. `have` is shutil.which(tool) is   *)
(* not None; proc is what the subprocess answered.                         *)

Proc(c, o, e) == [code |-> c, out |-> o, err |-> e]

run_nekroctl(proc) == Proc(proc.code, strip(proc.out), strip(proc.err))

run_with_sudo(have, proc) ==
    IF ~have THEN Proc(127, "", "sudo not found")
    ELSE Proc(proc.code, strip(proc.out), strip(proc.err))

run_with_pkexec(have, proc) ==
    IF ~have THEN Proc(127, "", "pkexec not found; install policykit-1")
    ELSE Proc(proc.code, strip(proc.out), strip(proc.err))

----------------------------------------------------------------------------
(* run_privileged: classification of failures and choice of the message    *)

\* classify_perm_denied comparing the text as it came, without lower()
classify_perm_denied_case_sensitive(code, err) ==
    \/ code = 3
    \/ Contains("permission denied", err)
    \/ Contains("operation not permitted", err)
    \/ Contains("not authorized", err)
    \/ Contains("authentication is required", err)
    \/ Contains("must be root", err)

\* perm_denied, computed from the unprivileged attempt
classify_perm_denied(code, err) ==
    \E err_l \in {lower(err)} :
        \/ code = 3
        \/ Contains("permission denied", err_l)
        \/ Contains("operation not permitted", err_l)
        \/ Contains("not authorized", err_l)
        \/ Contains("authentication is required", err_l)
        \/ Contains("must be root", err_l)

\* classify_sudo_requires_password with the conjunction read as
\* ("password" and "authentication") or "is required"
classify_sudo_requires_password_loose(code2, err2) ==
    \E err2_l \in {lower(err2)} :
        \/ code2 = 127
        \/ Contains("a password is required", err2_l)
        \/ (Contains("password", err2_l) /\ Contains("authentication", err2_l))
        \/ Contains("is required", err2_l)
        \/ Contains("no tty present", err2_l)
        \/ Contains("unable to authenticate", err2_l)
        \/ Contains("sorry, you must have a tty to run sudo", err2_l)

\* sudo_requires_password, computed from the `sudo -n` attempt; Python's
\* `and` binds tighter than `or`
classify_sudo_requires_password(code2, err2) ==
    \E err2_l \in {lower(err2)} :
        \/ code2 = 127
        \/ Contains("a password is required", err2_l)
        \/ (/\ Contains("password", err2_l)
            /\ (Contains("authentication", err2_l) \/ Contains("is required", err2_l)))
        \/ Contains("no tty present", err2_l)
        \/ Contains("unable to authenticate", err2_l)
        \/ Contains("sorry, you must have a tty to run sudo", err2_l)

FailedWithCode(code) == "Failed with code " \o str(code)

Outcome(ok, msg) == [ok |-> ok, msg |-> msg]

\* the value of result while run_privileged has not returned
NoResult == Outcome(FALSE, "")

\* return True, out or "OK"
Succeeded(r) == Outcome(TRUE, Or(r.out, "OK"))

\* NotPermissionFailure surfacing the lowered text used for classification
NotPermissionFailure_lowered(r1) ==
    Outcome(FALSE, Or(lower(r1.err), Or(r1.out, FailedWithCode(r1.code))))

\* return False, err or out or f"Failed with code {code}"
NotPermissionFailure(r1) ==
    Outcome(FALSE, Or(r1.err, Or(r1.out, FailedWithCode(r1.code))))

\* SudoFailure surfacing the unprivileged attempt's text first
SudoFailure_original_first(r1, r2) ==
    Outcome(FALSE,
            Or(r1.err, Or(r1.out, Or(r2.err, Or(r2.out, FailedWithCode(r2.code))))))

\* msg = err2 or out2 or err or out or f"Failed with code {code2}"
SudoFailure(r1, r2) ==
    Outcome(FALSE,
            Or(r2.err, Or(r2.out, Or(r1.err, Or(r1.out, FailedWithCode(r2.code))))))

\* PkexecFailure preferring sudo's output to pkexec's
PkexecFailure_sudo_first(r1, r2, r3) ==
    Outcome(FALSE,
            Or(r2.err, Or(r2.out, Or(r3.err, Or(r3.out,
            Or(r1.err, Or(r1.out, FailedWithCode(r3.code))))))))

\* msg = err3 or out3 or err2 or out2 or err or out or f"Failed with code {code3}"
PkexecFailure(r1, r2, r3) ==
    Outcome(FALSE,
            Or(r3.err, Or(r3.out, Or(r2.err, Or(r2.out,
            Or(r1.err, Or(r1.out, FailedWithCode(r3.code))))))))

\* AfterUnprivileged escalating on every failure
AfterUnprivileged_always_escalate(r1) ==
    IF r1.code = 0 THEN [pc |-> "done", result |-> Succeeded(r1)]
    ELSE [pc |-> "sudo", result |-> NoResult]

\* what run_privileged does once the unprivileged attempt r1 has exited:
\* return, or go on to `sudo -n`
AfterUnprivileged(r1) ==
    IF r1.code = 0 THEN [pc |-> "done", result |-> Succeeded(r1)]
    ELSE IF ~classify_perm_denied(r1.code, r1.err)
         THEN [pc |-> "done", result |-> NotPermissionFailure(r1)]
         ELSE [pc |-> "sudo", result |-> NoResult]

\* AfterSudo classifying before it looks at the exit status
AfterSudo_classify_first(r1, r2) ==
    IF classify_sudo_requires_password(r2.code, r2.err)
    THEN [pc |-> "pkexec", result |-> NoResult]
    ELSE IF r2.code = 0 THEN [pc |-> "done", result |-> Succeeded(r2)]
         ELSE [pc |-> "done", result |-> SudoFailure(r1, r2)]

\* what it does once `sudo -n` has exited: return, or go on to pkexec
AfterSudo(r1, r2) ==
    IF r2.code = 0 THEN [pc |-> "done", result |-> Succeeded(r2)]
    ELSE IF classify_sudo_requires_password(r2.code, r2.err)
         THEN [pc |-> "pkexec", result |-> NoResult]
         ELSE [pc |-> "done", result |-> SudoFailure(r1, r2)]

\* what it does once pkexec has exited
AfterPkexec(r1, r2, r3) ==
    IF r3.code = 0 THEN [pc |-> "done", result |-> Succeeded(r3)]
    ELSE [pc |-> "done", result |-> PkexecFailure(r1, r2, r3)]

Ran(tier, r) == [tier |-> tier, code |-> r.code, out |-> r.out, err |-> r.err]

----------------------------------------------------------------------------
(* The front-end: input widgets and the argument lists computed from them  *)

\* Python None, where a str or a source id is expected
None == "None"

\* the id GLib.timeout_add returned
SourceId == "source"

TickKeys == {"per_zone", "effect", "logo"}

Keys == TickKeys \cup {"fan", "power", "battery"}

\* the characters of "0123456789abcdefABCDEF"
HexDigits ==
    {"0", "1", "2", "3", "4", "5", "6", "7", "8", "9", "a", "b", "c", "d", "e", "f",
     "A", "B", "C", "D", "E", "F"}

\* parse_hex_color(s): the normalised colour, or ok = FALSE for ValueError
parse_hex_color(text) ==
    LET s0 == strip(text)
        s  == IF s0 # "" /\ Head(s0) = "#" THEN Tail(s0) ELSE s0
    IN  IF \/ Len(s) # 6
           \/ \E i \in 1..Len(s) : Char(s, i) \notin HexDigits
        THEN [ok |-> FALSE, value |-> ""]
        ELSE [ok |-> TRUE, value |-> lower(s)]

\* the texts the user types into the colour entries, and the values picked
SingleColorTexts == {"00aaff", "#FF0000", "GGGGGG"}
EffectModes == {3, 0}
EffectColorTexts == {"", "ff00"}
LogoColorTexts == {"#00FFCC", "red"}

\* every text a colour entry holds: the ones typed, the ones the entries
\* are created with, and the ones read back from per_zone_mode
ColorTexts == SingleColorTexts \cup EffectColorTexts \cup LogoColorTexts
              \cup {"00aaff", "00ffcc"}
              \cup {"ff0000", "00ff00", "0000ff", "000000", "ffffff"}

\* parse_hex_color on the texts of the colour entries, computed once
parsed_hex_color == [text \in ColorTexts |-> parse_hex_color(text)]

\* _compute_per_zone_args(); <<>> stands for None
compute_per_zone_args(w, exists) ==
    LET texts  == IF w.single_row THEN <<w.single_color>> ELSE w.z_entries
        parsed == [i \in 1..Len(texts) |-> parsed_hex_color[texts[i]]]
        colors == [i \in 1..Len(texts) |-> parsed[i].value]
        four   == IF Len(colors) = 1
                  THEN <<colors[1], colors[1], colors[1], colors[1]>>
                  ELSE colors
    IN  IF ~exists THEN <<>>
        ELSE IF \E i \in 1..Len(texts) : ~parsed[i].ok THEN <<>>
        ELSE IF ~w.single_row /\ Len(colors) # 4 THEN <<>>
        ELSE <<"rgb", "per-zone">> \o four \o <<"-b", str(w.bright_row)>>

\* list(ctl.MODE_NAME_TO_ID.keys())
mode_names ==
    <<"static", "breathing", "neon", "wave", "shifting", "zoom", "meteor", "twinkling">>

\* _compute_effect_args(); mode_row counts from 0
compute_effect_args(w, exists) ==
    LET ctext == strip(w.color_row)
        args  == <<"rgb", "effect", mode_names[w.mode_row + 1],
                   "-s", str(w.speed_row), "-b", str(w.bright2_row),
                   "-d", str(w.dir_row)>>
    IN  IF ~exists THEN <<>>
        ELSE IF ctext = "" THEN args
        ELSE IF ~parsed_hex_color[ctext].ok THEN <<>>
        ELSE args \o <<"-c", ctext>>

\* _compute_logo_args()
compute_logo_args(w) ==
    LET c == parsed_hex_color[w.logo_color]
    IN  IF ~c.ok THEN <<>>
        ELSE <<"logo", "set", c.value, "-b", str(w.logo_brightness),
               IF w.logo_power THEN "--on" ELSE "--off">>

\* _compute_fans_args()
compute_fans_args(w) ==
    IF w.cpu_auto /\ w.gpu_auto THEN <<"fan", "auto">>
    ELSE <<"fan", "set",
           "--cpu", IF w.cpu_auto THEN "auto" ELSE str(w.cpu_row),
           "--gpu", IF w.gpu_auto THEN "auto" ELSE str(w.gpu_row)>>

\* the _compute_*_args of the key
compute_args(k, w, exists) ==
    CASE k = "per_zone" -> compute_per_zone_args(w, exists)
      [] k = "effect"   -> compute_effect_args(w, exists)
      [] k = "logo"     -> compute_logo_args(w)
      [] k = "fan"      -> compute_fans_args(w)

\* sig = " ".join(args)
Sig(args) == Join(" ", args)

----------------------------------------------------------------------------
(* The fans page: the widgets' notify handlers call each other             *)

RECURSIVE set_cpu_auto(_, _), set_gpu_auto(_, _), set_cpu_row(_, _), set_gpu_row(_, _),
          maybe_link_from_cpu(_), maybe_link_from_gpu(_)

\* _maybe_link_from_cpu()
maybe_link_from_cpu(w) ==
    IF w.link_row
    THEN LET w1 == set_gpu_auto(w, w.cpu_auto)
         IN  IF ~w1.cpu_auto THEN set_gpu_row(w1, w1.cpu_row) ELSE w1
    ELSE w

\* _maybe_link_from_gpu()
maybe_link_from_gpu(w) ==
    IF w.link_row
    THEN LET w1 == set_cpu_auto(w, w.gpu_auto)
         IN  IF ~w1.gpu_auto THEN set_cpu_row(w1, w1.gpu_row) ELSE w1
    ELSE w

\* cpu_auto.set_active(v): notify::active only when the value changes
set_cpu_auto(w, v) ==
    IF w.cpu_auto = v THEN w ELSE maybe_link_from_cpu([w EXCEPT !.cpu_auto = v])

\* gpu_auto.set_active(v)
set_gpu_auto(w, v) ==
    IF w.gpu_auto = v THEN w ELSE maybe_link_from_gpu([w EXCEPT !.gpu_auto = v])

\* cpu_row.set_value(v)
set_cpu_row(w, v) ==
    IF w.cpu_row = v THEN w ELSE maybe_link_from_cpu([w EXCEPT !.cpu_row = v])

\* gpu_row.set_value(v)
set_gpu_row(w, v) ==
    IF w.gpu_row = v THEN w ELSE maybe_link_from_gpu([w EXCEPT !.gpu_row = v])

\* link_row.set_active(v): _on_link_toggle
set_link_row(w, v) ==
    IF w.link_row = v THEN w ELSE maybe_link_from_cpu([w EXCEPT !.link_row = v])

RECURSIVE Remove(_, _)
\* s.replace(ch, "")
Remove(s, ch) ==
    IF s = "" THEN ""
    ELSE (IF Head(s) = ch THEN "" ELSE Head(s)) \o Remove(Tail(s), ch)

\* [p for p in parts if p.strip()], each stripped
StrippedNonEmpty(parts) ==
    LET F[i \in 0..Len(parts)] ==
            IF i = 0 THEN <<>>
            ELSE IF strip(parts[i]) = "" THEN F[i - 1]
                 ELSE Append(F[i - 1], strip(parts[i]))
    IN  F[Len(parts)]

\* the widget updates of the fans page's refresh(), read from the text of
\* fan_speed; link_initialized is True once the page is built
fans_refresh_widgets(w, text, link_initialized) ==
    LET raw   == strip(text)
        parts == StrippedNonEmpty(Split(Remove(raw, "\n"), ","))
    IN  IF Len(parts) >= 2 /\ IsDigits(parts[1]) /\ IsDigits(parts[2])
        THEN LET c  == int(parts[1])
                 g  == int(parts[2])
                 w1 == set_cpu_auto(w, c = 0)
                 w2 == set_gpu_auto(w1, g = 0)
                 w3 == IF c > 0 THEN set_cpu_row(w2, c) ELSE w2
                 w4 == IF g > 0 THEN set_gpu_row(w3, g) ELSE w3
             IN  IF ~link_initialized /\ c = g THEN set_link_row(w4, TRUE) ELSE w4
        ELSE w

\* _parse_percent without its upper limit
parse_percent_or_auto_unlimited(v) ==
    LET t == lower(strip(v))
        i == py_int(t)
    IN  IF t \in {"auto", "a"} THEN [ok |-> TRUE, value |-> 0, error |-> ""]
        ELSE IF ~i.ok
        THEN [ok |-> FALSE, value |-> 0, error |-> "Expected integer percentage"]
        ELSE IF i.value >= 0 THEN [ok |-> TRUE, value |-> i.value, error |-> ""]
        ELSE [ok |-> FALSE, value |-> 0,
              error |-> "Percentage must be between 1 and 100 (or 0 for auto)"]

\* _parse_percent_or_auto of nekroctl.py: the value, or ok = FALSE with the
\* text of the ValueError
parse_percent_or_auto(v) ==
    LET t == lower(strip(v))
        i == py_int(t)
    IN  IF t \in {"auto", "a"} THEN [ok |-> TRUE, value |-> 0, error |-> ""]
        ELSE IF ~i.ok
        THEN [ok |-> FALSE, value |-> 0, error |-> "Expected integer percentage"]
        ELSE IF i.value = 0 THEN [ok |-> TRUE, value |-> 0, error |-> ""]
        ELSE IF i.value >= 1 /\ i.value <= 100
        THEN [ok |-> TRUE, value |-> i.value, error |-> ""]
        ELSE [ok |-> FALSE, value |-> 0,
              error |-> "Percentage must be between 1 and 100 (or 0 for auto)"]

\* what `nekroctl fan auto` / `nekroctl fan set --cpu C --gpu G` writes to fan_speed
cmd_fan_payload(args) ==
    IF args = <<"fan", "auto">> THEN "0,0\n"
    ELSE LET cpu == parse_percent_or_auto(args[4])
             gpu == parse_percent_or_auto(args[6])
         IN  str(cpu.value) \o "," \o str(gpu.value) \o "\n"

----------------------------------------------------------------------------
(* nekroctl.py: the command line, the attribute files, the leaf commands   *)

SYSFS_BASE == "/sys/module/nekro_sense/drivers/platform:acer-wmi/acer-wmi"
KB_PER_ZONE == SYSFS_BASE \o "/four_zoned_kb/per_zone_mode"
KB_FOUR_MODE == SYSFS_BASE \o "/four_zoned_kb/four_zone_mode"
LOGO_COLOR == SYSFS_BASE \o "/back_logo/color"
SENSE_PRED == SYSFS_BASE \o "/predator_sense"
SENSE_NITRO == SYSFS_BASE \o "/nitro_sense"
PLATFORM_PROFILE == "/sys/firmware/acpi/platform_profile"
PLATFORM_PROFILE_CHOICES == "/sys/firmware/acpi/platform_profile_choices"

\* os.path.join(a, b)
join_path(a, b) == a \o "/" \o b

\* _path_exists(p): files maps each existing path to its content
cli_path_exists(files, p) == p \in DOMAIN files

\* _read_text(path)
cli_read_text(files, path) == strip(files[path])

\* the file system after open(path, "w") ... f.write(content)
Written(files, path, content) ==
    [p \in (DOMAIN files) \cup {path} |-> IF p = path THEN content ELSE files[p]]

\* _detect_sense_dir()
detect_sense_dir_nitro_first(files) ==
    IF cli_path_exists(files, SENSE_NITRO) THEN SENSE_NITRO
    ELSE IF cli_path_exists(files, SENSE_PRED) THEN SENSE_PRED
    ELSE None

\* _detect_sense_dir()
detect_sense_dir(files) ==
    IF cli_path_exists(files, SENSE_PRED) THEN SENSE_PRED
    ELSE IF cli_path_exists(files, SENSE_NITRO) THEN SENSE_NITRO
    ELSE None

\* detect_sense_fan_path() of the front-end: the fan_speed file, or None
detect_sense_fan_path(files) ==
    LET base == IF cli_path_exists(files, SYSFS_BASE)
                THEN IF cli_path_exists(files, SENSE_PRED) THEN SENSE_PRED
                     ELSE IF cli_path_exists(files, SENSE_NITRO) THEN SENSE_NITRO
                     ELSE None
                ELSE None
        p    == join_path(base, "fan_speed")
    IN  IF base = None THEN None
        ELSE IF cli_path_exists(files, p) THEN p ELSE None

\* what a command leaves behind: the exit code main returns, what it
\* printed, the file system, and whether it got as far as an open()
Exit(code, out, err, files) ==
    [code |-> code, stdout |-> out, stderr |-> err, fs |-> files, opened |-> FALSE]

\* ... having called open()
Opened(exit) == [exit EXCEPT !.opened = TRUE]

\* the message of _require_path
MissingMessage(desc, path) ==
    "Missing " \o desc \o " at " \o path
    \o ". Ensure the Nekro-Sense module is loaded and your device supports this feature.\n"

\* the message of _fan_path / _battery_limit_path without a sense directory
NoSenseMessage ==
    "Could not find predator_sense or nitro_sense directory. Is the module loaded?\n"

\* the message of _write_text on PermissionError
PermissionMessage(path) ==
    "Permission denied writing to " \o path \o ". Try running with sudo/root.\n"

\* main: `except Exception as e`
ErrorMessage(e) == "Error: " \o e \o "\n"

\* _require_path exiting with 1
RequireFails_exit_1(files, path, desc) == Exit(1, "", MissingMessage(desc, path), files)

\* _require_path(path, desc): sys.exit(2) with the message, caught by main
RequireFails(files, path, desc) == Exit(2, "", MissingMessage(desc, path), files)

\* raise SystemExit("..."): main returns 1, int(e.code) having failed;
\* nothing is printed
SystemExitText(files, text) == Exit(1, "", "", files)

\* an exception other than SystemExit, FileNotFoundError, PermissionError
Raises(files, e) == Exit(1, "", ErrorMessage(e), files)

\* the sub-commands of build_parser
Groups == {"rgb", "power", "logo", "fan", "battery"}

Leaves ==
    {"rgb per-zone", "rgb per-zone-get", "rgb effect", "rgb effect-get",
     "power get", "power list", "power set", "logo get", "logo set",
     "fan get", "fan auto", "fan set",
     "battery get", "battery on", "battery off", "battery set"}

\* the Namespace with the defaults of the add_argument calls
Namespace ==
    [colors |-> <<>>, brightness |-> 100, mode |-> None, speed |-> 1, direction |-> 2,
     color |-> None, values |-> <<>>, cpu |-> None, gpu |-> None,
     on |-> FALSE, off |-> FALSE]

Opt(dest, type) == [dest |-> dest, type |-> type]

\* the optional arguments of a leaf parser
Options(leaf) ==
    CASE leaf = "rgb per-zone" ->
            ("-b" :> Opt("brightness", "int")) @@ ("--brightness" :> Opt("brightness", "int"))
      [] leaf = "rgb effect" ->
            ("-s" :> Opt("speed", "int")) @@ ("--speed" :> Opt("speed", "int"))
            @@ ("-b" :> Opt("brightness", "int")) @@ ("--brightness" :> Opt("brightness", "int"))
            @@ ("-d" :> Opt("direction", "int")) @@ ("--direction" :> Opt("direction", "int"))
            @@ ("-c" :> Opt("color", "str")) @@ ("--color" :> Opt("color", "str"))
      [] leaf = "logo set" ->
            ("-b" :> Opt("brightness", "int")) @@ ("--brightness" :> Opt("brightness", "int"))
            @@ ("--on" :> Opt("on", "flag")) @@ ("--off" :> Opt("off", "flag"))
      [] leaf = "fan set" ->
            ("--cpu" :> Opt("cpu", "str")) @@ ("--gpu" :> Opt("gpu", "str"))
      [] OTHER -> <<>>

\* the positional argument of a leaf parser: its dest and its nargs
Positional(leaf) ==
    CASE leaf = "rgb per-zone" -> [dest |-> "colors", nargs |-> "*"]
      [] leaf = "rgb effect"   -> [dest |-> "mode", nargs |-> "?"]
      [] leaf = "power set"    -> [dest |-> "mode", nargs |-> "?"]
      [] leaf = "logo set"     -> [dest |-> "color", nargs |-> "1"]
      [] leaf = "fan set"      -> [dest |-> "values", nargs |-> "*"]
      [] leaf = "battery set"  -> [dest |-> "mode", nargs |-> "?"]
      [] OTHER                 -> [dest |-> None, nargs |-> "0"]

\* argparse takes a token for an option when it starts with '-' and is
\* neither '-' nor a negative number
IsOptionToken(t) == Len(t) >= 2 /\ Head(t) = "-" /\ ~IsDigits(Tail(t))

\* print_help(): the usage on stdout
HelpText(prog) == "usage: " \o prog \o " [-h]\n"

\* parser.error(detail): usage and message on stderr, SystemExit(2)
ArgparseError(prog, detail) ==
    [ok |-> FALSE, ns |-> Namespace, code |-> 2, out |-> "",
     err |-> HelpText(prog) \o prog \o ": error: " \o detail \o "\n"]

\* -h / --help: the help on stdout, SystemExit(0)
ArgparseHelp(prog) ==
    [ok |-> FALSE, ns |-> Namespace, code |-> 0, out |-> HelpText(prog), err |-> ""]

Parsed(ns) == [ok |-> TRUE, ns |-> ns, code |-> 0, out |-> "", err |-> ""]

RECURSIVE parse_tokens(_, _, _, _)
\* parse_args on the tokens after the leaf's name: the options are
\* converted as they come, the other tokens are collected in pos and given to
\* the positional argument at the end
parse_tokens(leaf, toks, ns, pos) ==
    IF toks = <<>>
    THEN LET p == Positional(leaf)
         IN  CASE p.nargs = "0" ->
                    IF pos = <<>> THEN Parsed(ns)
                    ELSE ArgparseError("nekroctl " \o leaf, "unrecognized arguments: " \o Join(" ", pos))
               [] p.nargs = "*" ->
                    Parsed([ns EXCEPT ![p.dest] = pos])
               [] p.nargs = "?" ->
                    IF Len(pos) = 0 THEN Parsed(ns)
                    ELSE IF Len(pos) = 1
                    THEN Parsed([ns EXCEPT ![p.dest] = pos[1]])
                    ELSE ArgparseError("nekroctl " \o leaf, "unrecognized arguments: "
                                             \o Join(" ", Tail(pos)))
               [] p.nargs = "1" ->
                    IF Len(pos) = 0
                    THEN ArgparseError("nekroctl " \o leaf, "the following arguments are required: "
                                             \o p.dest)
                    ELSE IF Len(pos) = 1
                    THEN Parsed([ns EXCEPT ![p.dest] = pos[1]])
                    ELSE ArgparseError("nekroctl " \o leaf, "unrecognized arguments: "
                                             \o Join(" ", Tail(pos)))
    ELSE LET t == Head(toks)
         IN  IF ~IsOptionToken(t) THEN parse_tokens(leaf, Tail(toks), ns, Append(pos, t))
             ELSE IF t \in {"-h", "--help"} THEN ArgparseHelp("nekroctl " \o leaf)
             ELSE IF t \notin DOMAIN Options(leaf)
             THEN ArgparseError("nekroctl " \o leaf, "unrecognized arguments: " \o t)
             ELSE LET o == Options(leaf)[t]
                  IN  IF o.type = "flag"
                      THEN parse_tokens(leaf, Tail(toks), [ns EXCEPT ![o.dest] = TRUE], pos)
                      ELSE IF Len(toks) < 2 \/ IsOptionToken(toks[2])
                      THEN ArgparseError("nekroctl " \o leaf, "argument " \o t \o ": expected one argument")
                      ELSE IF o.type = "int" /\ ~py_int(toks[2]).ok
                      THEN ArgparseError("nekroctl " \o leaf, "argument " \o t \o ": invalid int value: '"
                                               \o toks[2] \o "'")
                      ELSE parse_tokens(
                               leaf, Tail(Tail(toks)),
                               [ns EXCEPT ![o.dest] = IF o.type = "int"
                                                      THEN py_int(toks[2]).value
                                                      ELSE toks[2]],
                               pos)

\* an open() that fails: the exception reaches main
OpenFails(files, fault, path) ==
    Opened(CASE fault = "PermissionError" -> Exit(3, "", "", files)
             [] fault = "FileNotFoundError" ->
                   Exit(2, "", "File not found: [Errno 2] No such file or directory: '"
                               \o path \o "'\n", files)
             [] fault = "OSError" ->
                   Raises(files, "[Errno 22] Invalid argument: '" \o path \o "'"))

\* _write_text without the `raise` that ends its handler: the message is
\* written, the leaf goes on to print its OK line and main returns 0
write_text_without_raise(files, fault, path, content, ok_line) ==
    IF fault = "none"
    THEN Opened(Exit(0, ok_line \o "\n", "", Written(files, path, content)))
    ELSE IF fault = "PermissionError"
    THEN Opened(Exit(0, ok_line \o "\n", PermissionMessage(path), files))
    ELSE OpenFails(files, fault, path)

\* _write_text(path, content) and the print after it; `fault` is what the
\* open() calls of this run raise, if anything
write_text(files, fault, path, content, ok_line) ==
    IF fault = "none"
    THEN Opened(Exit(0, ok_line \o "\n", "", Written(files, path, content)))
    ELSE IF fault = "PermissionError"
    THEN Opened(Exit(3, "", PermissionMessage(path), files))
    ELSE OpenFails(files, fault, path)

\* print(_read_text(path))
print_text(files, fault, path) ==
    IF fault = "none" THEN Opened(Exit(0, cli_read_text(files, path) \o "\n", "", files))
    ELSE OpenFails(files, fault, path)

\* parser.print_help() and return
PrintsHelp(files, prog) == Exit(0, HelpText(prog), "", files)

\* _parse_hex_color(s) of nekroctl returning s, not s.lower()
cli_parse_hex_color_as_given(text) ==
    LET s0 == strip(text)
        s  == IF s0 # "" /\ Head(s0) = "#" THEN Tail(s0) ELSE s0
    IN  IF \/ Len(s) # 6
           \/ \E i \in 1..Len(s) : Char(s, i) \notin HexDigits
        THEN [ok |-> FALSE, value |-> ""]
        ELSE [ok |-> TRUE, value |-> s]

\* _parse_hex_color(s) of nekroctl: the normalised colour, or ok = FALSE for
\* ValueError
cli_parse_hex_color(text) ==
    LET s0 == strip(text)
        s  == IF Len(s0) >= 1 /\ SubSeq(s0, 1, 1) = "#" THEN SubSeq(s0, 2, Len(s0)) ELSE s0
    IN  IF Len(s) # 6 \/ \E i \in 1..Len(s) : Char(s, i) \notin HexDigits
        THEN [ok |-> FALSE, value |-> ""]
        ELSE [ok |-> TRUE, value |-> lower(s)]

\* the ValueError text of _parse_hex_color
InvalidColor(text) ==
    LET s0 == strip(text)
        s  == IF s0 # "" /\ Head(s0) = "#" THEN Tail(s0) ELSE s0
    IN  "Invalid color '" \o s \o "'. Use RRGGBB or #RRGGBB."

\* cmd_rgb_per_zone(args) taking any number of colours
cmd_rgb_per_zone_any_count(ns, files, fault) ==
    LET given == [i \in 1..Len(ns.colors) |-> cli_parse_hex_color(ns.colors[i]).value]
    IN  IF ~cli_path_exists(files, KB_PER_ZONE)
        THEN RequireFails(files, KB_PER_ZONE, "four-zone keyboard per_zone_mode")
        ELSE IF Len(given) = 0 THEN PrintsHelp(files, "nekroctl rgb per-zone")
        ELSE write_text(files, fault, KB_PER_ZONE,
                        Join(",", Append(given, py_str(ns.brightness))) \o "\n",
                        "OK: per-zone colors set")

\* cmd_rgb_per_zone(args) writing the zones right to left
cmd_rgb_per_zone_reversed(ns, files, fault) ==
    LET given == [i \in 1..Len(ns.colors) |-> cli_parse_hex_color(ns.colors[i]).value]
        colors == IF Len(given) = 1 THEN given \o given \o given \o given
                  ELSE [i \in 1..Len(given) |-> given[Len(given) + 1 - i]]
    IN  IF ~cli_path_exists(files, KB_PER_ZONE)
        THEN RequireFails(files, KB_PER_ZONE, "four-zone keyboard per_zone_mode")
        ELSE IF Len(given) = 0 THEN PrintsHelp(files, "nekroctl rgb per-zone")
        ELSE IF Len(colors) # 4
        THEN SystemExitText(files, "Provide exactly 1 or 4 colors (RRGGBB).")
        ELSE IF ~(0 <= ns.brightness /\ ns.brightness <= 100)
        THEN SystemExitText(files, "Brightness must be 0-100")
        ELSE write_text(files, fault, KB_PER_ZONE,
                        Join(",", Append(colors, py_str(ns.brightness))) \o "\n",
                        "OK: per-zone colors set")

\* cmd_rgb_per_zone(args)
cmd_rgb_per_zone(ns, files, fault) ==
    LET parsed == [i \in 1..Len(ns.colors) |-> cli_parse_hex_color(ns.colors[i])]
        bad    == {i \in 1..Len(ns.colors) : ~parsed[i].ok}
        given  == [i \in 1..Len(ns.colors) |-> parsed[i].value]
        colors == IF Len(given) = 1 THEN given \o given \o given \o given ELSE given
    IN  IF ~cli_path_exists(files, KB_PER_ZONE)
        THEN RequireFails(files, KB_PER_ZONE, "four-zone keyboard per_zone_mode")
        ELSE IF bad # {}
        THEN Raises(files, InvalidColor(ns.colors[CHOOSE i \in bad : \A j \in bad : i <= j]))
        ELSE IF Len(given) = 0 THEN PrintsHelp(files, "nekroctl rgb per-zone")
        ELSE IF Len(colors) # 4
        THEN SystemExitText(files, "Provide exactly 1 or 4 colors (RRGGBB).")
        ELSE IF ~(0 <= ns.brightness /\ ns.brightness <= 100)
        THEN SystemExitText(files, "Brightness must be 0-100")
        ELSE write_text(files, fault, KB_PER_ZONE,
                        Join(",", Append(colors, py_str(ns.brightness))) \o "\n",
                        "OK: per-zone colors set")

\* cmd_rgb_per_zone_get
cmd_rgb_per_zone_get(files, fault) ==
    IF ~cli_path_exists(files, KB_PER_ZONE)
    THEN RequireFails(files, KB_PER_ZONE, "four-zone keyboard per_zone_mode")
    ELSE print_text(files, fault, KB_PER_ZONE)

\* MODE_NAME_TO_ID[name]
mode_id_of(name) == (CHOOSE i \in 1..Len(mode_names) : mode_names[i] = name) - 1

\* int(h, 16) for two lowercase hexadecimal digits
HexValue(h) ==
    LET digits == "0123456789abcdef"
        v(c)   == (CHOOSE d \in 1..16 : Char(digits, d) = c) - 1
    IN  16 * v(Char(h, 1)) + v(Char(h, 2))

\* cmd_rgb_effect(args)
cmd_rgb_effect(ns, files, fault) ==
    LET named  == \E i \in 1..Len(mode_names) : mode_names[i] = lower(ns.mode)
        number == py_int(ns.mode)
        mode   == IF named THEN mode_id_of(lower(ns.mode)) ELSE number.value
        hascol == ns.color \notin {None, ""}
        col    == cli_parse_hex_color(ns.color)
        rgb    == IF hascol
                  THEN <<HexValue(SubSeq(col.value, 1, 2)), HexValue(SubSeq(col.value, 3, 4)),
                         HexValue(SubSeq(col.value, 5, 6))>>
                  ELSE <<0, 0, 0>>
    IN  IF ~cli_path_exists(files, KB_FOUR_MODE)
        THEN RequireFails(files, KB_FOUR_MODE, "four-zone keyboard four_zone_mode")
        ELSE IF ns.mode = None THEN PrintsHelp(files, "nekroctl rgb effect")
        ELSE IF ~named /\ ~number.ok
        THEN SystemExitText(files, "Unknown mode '" \o ns.mode \o "'. Use one of: "
                                \o Join(", ", mode_names) \o " or 0-7.")
        ELSE IF ~(0 <= mode /\ mode <= 7) THEN SystemExitText(files, "Mode must be 0-7")
        ELSE IF ~(0 <= ns.speed /\ ns.speed <= 9) THEN SystemExitText(files, "Speed must be 0-9")
        ELSE IF ~(0 <= ns.brightness /\ ns.brightness <= 100)
        THEN SystemExitText(files, "Brightness must be 0-100")
        ELSE IF ~(1 <= ns.direction /\ ns.direction <= 2)
        THEN SystemExitText(files, "Direction must be 1 or 2")
        ELSE IF hascol /\ ~col.ok THEN Raises(files, InvalidColor(ns.color))
        ELSE write_text(files, fault, KB_FOUR_MODE,
                        Join(",", <<str(mode), str(ns.speed), str(ns.brightness),
                                    str(ns.direction), str(rgb[1]), str(rgb[2]),
                                    str(rgb[3])>>) \o "\n",
                        "OK: effect set")

\* cmd_rgb_effect_get
cmd_rgb_effect_get(files, fault) ==
    IF ~cli_path_exists(files, KB_FOUR_MODE)
    THEN RequireFails(files, KB_FOUR_MODE, "four-zone keyboard four_zone_mode")
    ELSE print_text(files, fault, KB_FOUR_MODE)

\* cmd_power_get
cmd_power_get(files, fault) ==
    IF ~cli_path_exists(files, PLATFORM_PROFILE)
    THEN RequireFails(files, PLATFORM_PROFILE, "platform_profile")
    ELSE print_text(files, fault, PLATFORM_PROFILE)

\* cmd_power_list
cmd_power_list(files, fault) ==
    IF ~cli_path_exists(files, PLATFORM_PROFILE_CHOICES)
    THEN RequireFails(files, PLATFORM_PROFILE_CHOICES, "platform_profile_choices")
    ELSE print_text(files, fault, PLATFORM_PROFILE_CHOICES)

\* {c.strip() for c in choices.split(" ") if c.strip()}
allowed_profiles(choices) ==
    LET parts == Split(choices, " ")
    IN  {strip(parts[i]) : i \in {j \in 1..Len(parts) : strip(parts[j]) # ""}}

\* cmd_power_set without the look at platform_profile_choices
cmd_power_set_any_profile(ns, files, fault) ==
    IF ns.mode = None THEN PrintsHelp(files, "nekroctl power set")
    ELSE IF ~cli_path_exists(files, PLATFORM_PROFILE)
    THEN RequireFails(files, PLATFORM_PROFILE, "platform_profile")
    ELSE write_text(files, fault, PLATFORM_PROFILE, ns.mode \o "\n", "OK: power profile set")

\* _power_set_wrapper and cmd_power_set(args)
cmd_power_set(ns, files, fault) ==
    IF ns.mode = None THEN PrintsHelp(files, "nekroctl power set")
    ELSE IF ~cli_path_exists(files, PLATFORM_PROFILE)
    THEN RequireFails(files, PLATFORM_PROFILE, "platform_profile")
    ELSE IF cli_path_exists(files, PLATFORM_PROFILE_CHOICES) /\ fault # "none"
    THEN OpenFails(files, fault, PLATFORM_PROFILE_CHOICES)
    ELSE LET allowed == IF cli_path_exists(files, PLATFORM_PROFILE_CHOICES)
                        THEN allowed_profiles(cli_read_text(files, PLATFORM_PROFILE_CHOICES))
                        ELSE {}
         IN  IF allowed # {} /\ ns.mode \notin allowed
             THEN Opened(SystemExitText(files, "Unsupported profile '" \o ns.mode \o "'."))
             ELSE write_text(files, fault, PLATFORM_PROFILE, ns.mode \o "\n",
                             "OK: power profile set")

\* cmd_logo_get
cmd_logo_get(files, fault) ==
    IF ~cli_path_exists(files, LOGO_COLOR) THEN RequireFails(files, LOGO_COLOR, "back_logo/color")
    ELSE print_text(files, fault, LOGO_COLOR)

\* _logo_set_wrapper and cmd_logo_set(args), writing whatever colour it is given
cmd_logo_set_unvalidated(ns, files, fault) ==
    write_text(files, fault, LOGO_COLOR,
               lower(ns.color) \o "," \o py_str(ns.brightness) \o ","
               \o (IF ns.off THEN "0" ELSE "1") \o "\n",
               "OK: back logo updated")

\* _logo_set_wrapper and cmd_logo_set(args)
cmd_logo_set(ns, files, fault) ==
    LET color == cli_parse_hex_color(ns.color)
    IN  IF ns.on /\ ns.off
        THEN SystemExitText(files, "Choose either --on or --off, not both")
        ELSE IF ~cli_path_exists(files, LOGO_COLOR)
        THEN RequireFails(files, LOGO_COLOR, "back_logo/color")
        ELSE IF ~color.ok THEN Raises(files, InvalidColor(ns.color))
        ELSE IF ~(0 <= ns.brightness /\ ns.brightness <= 100)
        THEN SystemExitText(files, "Brightness must be 0-100")
        ELSE write_text(files, fault, LOGO_COLOR,
                        color.value \o "," \o str(ns.brightness) \o ","
                        \o (IF ns.off THEN "0" ELSE "1") \o "\n",
                        "OK: back logo updated")

\* _fan_path() / _battery_limit_path(): the path, or the exit
sense_path(files, name) ==
    LET sense == detect_sense_dir(files)
        p     == join_path(sense, name)
    IN  IF sense = None THEN [ok |-> FALSE, path |-> None, exit |-> Exit(2, "", NoSenseMessage, files)]
        ELSE IF ~cli_path_exists(files, p)
        THEN [ok |-> FALSE, path |-> p, exit |-> RequireFails(files, p, name)]
        ELSE [ok |-> TRUE, path |-> p, exit |-> Exit(0, "", "", files)]

\* cmd_fan_auto
cmd_fan_auto(files, fault) ==
    LET p == sense_path(files, "fan_speed")
    IN  IF ~p.ok THEN p.exit
        ELSE write_text(files, fault, p.path, "0,0\n", "OK: fan control set to auto")

\* cmd_fan_get
cmd_fan_get(files, fault) ==
    LET p == sense_path(files, "fan_speed")
    IN  IF ~p.ok THEN p.exit ELSE print_text(files, fault, p.path)

\* _fan_set_wrapper and cmd_fan_set(args); `texts` are the values in the
\* order cmd_fan_set converts them, the first that fails raising ValueError
cmd_fan_set(ns, files, fault) ==
    LET p     == sense_path(files, "fan_speed")
        n     == Len(ns.values)
        cpu0  == IF n >= 1 THEN ns.values[1] ELSE ns.cpu
        gpu0  == IF n = 1 THEN ns.values[1] ELSE IF n = 2 THEN ns.values[2] ELSE ns.gpu
        cpu1  == IF cpu0 = None THEN gpu0 ELSE cpu0
        gpu1  == IF gpu0 = None THEN cpu1 ELSE gpu0
        texts == <<cpu1, gpu1>>
        bad   == {i \in 1..2 : ~parse_percent_or_auto(texts[i]).ok}
        first == CHOOSE i \in bad : \A j \in bad : i <= j
        cpu   == parse_percent_or_auto(cpu1).value
        gpu   == parse_percent_or_auto(gpu1).value
    IN  IF n = 0 /\ ns.cpu = None /\ ns.gpu = None THEN PrintsHelp(files, "nekroctl fan set")
        ELSE IF ~p.ok THEN p.exit
        ELSE IF n > 2 THEN SystemExitText(files, "Provide one or two percentage values")
        ELSE IF bad # {} THEN Raises(files, parse_percent_or_auto(texts[first]).error)
        ELSE write_text(files, fault, p.path, str(cpu) \o "," \o str(gpu) \o "\n",
                        "OK: fan set CPU=" \o str(cpu) \o " GPU=" \o str(gpu))

\* _parse_on_off taking every unknown spelling for off
parse_on_off_lenient(val) ==
    LET s == lower(strip(val))
    IN  IF s \in {"1", "on", "true", "yes", "y", "enable", "enabled"}
        THEN [ok |-> TRUE, value |-> 1]
        ELSE [ok |-> TRUE, value |-> 0]

\* _parse_on_off(val): 1, 0, or ok = FALSE for ValueError
parse_on_off(val) ==
    LET s == lower(strip(val))
    IN  IF s \in {"1", "on", "true", "yes", "y", "enable", "enabled"}
        THEN [ok |-> TRUE, value |-> 1]
        ELSE IF s \in {"0", "off", "false", "no", "n", "disable", "disabled"}
        THEN [ok |-> TRUE, value |-> 0]
        ELSE [ok |-> FALSE, value |-> 0]

\* cmd_battery_get
cmd_battery_get(files, fault) ==
    LET p == sense_path(files, "battery_limiter")
    IN  IF ~p.ok THEN p.exit ELSE print_text(files, fault, p.path)

\* _battery_set_wrapper and cmd_battery_set(args)
cmd_battery_set(ns, files, fault) ==
    LET p == sense_path(files, "battery_limiter")
        v == parse_on_off(ns.mode)
    IN  IF ns.mode = None THEN PrintsHelp(files, "nekroctl battery set")
        ELSE IF ~p.ok THEN p.exit
        ELSE IF ~v.ok THEN SystemExitText(files, "Expected on/off (or 1/0, true/false, yes/no)")
        ELSE write_text(files, fault, p.path, str(v.value) \o "\n",
                        "OK: battery limit set to "
                        \o (IF v.value = 1 THEN "ON (80%)" ELSE "OFF (100%)"))

\* cmd_battery_on / cmd_battery_off
cmd_battery_switch(v, files, fault) ==
    LET p == sense_path(files, "battery_limiter")
    IN  IF ~p.ok THEN p.exit
        ELSE write_text(files, fault, p.path, str(v) \o "\n",
                        "OK: battery limit " \o (IF v = 1 THEN "ON (80%)" ELSE "OFF (100%)"))

\* args.func(args) of the leaf parser
run_leaf(leaf, ns, files, fault) ==
    CASE leaf = "rgb per-zone"     -> cmd_rgb_per_zone(ns, files, fault)
      [] leaf = "rgb per-zone-get" -> cmd_rgb_per_zone_get(files, fault)
      [] leaf = "rgb effect"       -> cmd_rgb_effect(ns, files, fault)
      [] leaf = "rgb effect-get"   -> cmd_rgb_effect_get(files, fault)
      [] leaf = "power get"        -> cmd_power_get(files, fault)
      [] leaf = "power list"       -> cmd_power_list(files, fault)
      [] leaf = "power set"        -> cmd_power_set(ns, files, fault)
      [] leaf = "logo get"         -> cmd_logo_get(files, fault)
      [] leaf = "logo set"         -> cmd_logo_set(ns, files, fault)
      [] leaf = "fan get"          -> cmd_fan_get(files, fault)
      [] leaf = "fan auto"         -> cmd_fan_auto(files, fault)
      [] leaf = "fan set"          -> cmd_fan_set(ns, files, fault)
      [] leaf = "battery get"      -> cmd_battery_get(files, fault)
      [] leaf = "battery on"       -> cmd_battery_switch(1, files, fault)
      [] leaf = "battery off"      -> cmd_battery_switch(0, files, fault)
      [] leaf = "battery set"      -> cmd_battery_set(ns, files, fault)

\* main(argv): the exit code, what was printed, and the file system after it
main(argv, files, fault) ==
    IF argv = <<>> THEN PrintsHelp(files, "nekroctl")
    ELSE IF argv[1] \in {"-h", "--help"} THEN PrintsHelp(files, "nekroctl")
    ELSE IF argv[1] \notin Groups
    THEN Exit(2, "", ArgparseError("nekroctl", "argument cmd: invalid choice: '"
                                               \o argv[1] \o "'").err, files)
    ELSE IF Len(argv) = 1 THEN PrintsHelp(files, "nekroctl " \o argv[1])
    ELSE IF argv[2] \in {"-h", "--help"} THEN PrintsHelp(files, "nekroctl " \o argv[1])
    ELSE IF (argv[1] \o " " \o argv[2]) \notin Leaves
    THEN Exit(2, "", ArgparseError("nekroctl " \o argv[1],
                                   "argument " \o argv[1] \o "_cmd: invalid choice: '"
                                   \o argv[2] \o "'").err, files)
    ELSE LET leaf == argv[1] \o " " \o argv[2]
             p    == parse_tokens(leaf, SubSeq(argv, 3, Len(argv)), Namespace, <<>>)
         IN  IF ~p.ok THEN Exit(p.code, p.out, p.err, files)
             ELSE run_leaf(leaf, p.ns, files, fault)

----------------------------------------------------------------------------
(* The machines and the command lines of CliSpec.                          *)

\* model bound: commands issued, at the shell or by the front-end
MaxCommands == 1

Dir == "<dir>"

\* a laptop with every feature, under predator_sense
FullFs ==
    (SYSFS_BASE :> Dir)
    @@ (KB_PER_ZONE :> "00aaff,00aaff,00aaff,00aaff,100\n")
    @@ (KB_FOUR_MODE :> "3,1,100,2,0,0,0\n")
    @@ (LOGO_COLOR :> "00ffcc,100,1\n")
    @@ (SENSE_PRED :> Dir)
    @@ (join_path(SENSE_PRED, "fan_speed") :> "0,0\n")
    @@ (join_path(SENSE_PRED, "battery_limiter") :> "0\n")
    @@ (PLATFORM_PROFILE :> "balanced\n")
    @@ (PLATFORM_PROFILE_CHOICES :> "balanced performance\n")

\* one with nitro_sense only, no RGB keyboard, no list of profiles
NitroFs ==
    (SYSFS_BASE :> Dir)
    @@ (SENSE_NITRO :> Dir)
    @@ (join_path(SENSE_NITRO, "fan_speed") :> "50,50\n")
    @@ (join_path(SENSE_NITRO, "battery_limiter") :> "1\n")
    @@ (PLATFORM_PROFILE :> "balanced\n")

\* one with both directories, predator_sense without battery_limiter
BothFs ==
    (SYSFS_BASE :> Dir)
    @@ (SENSE_PRED :> Dir)
    @@ (join_path(SENSE_PRED, "fan_speed") :> "0,0\n")
    @@ (SENSE_NITRO :> Dir)
    @@ (join_path(SENSE_NITRO, "fan_speed") :> "50,50\n")
    @@ (join_path(SENSE_NITRO, "battery_limiter") :> "1\n")

\* the module loaded on a machine with none of the features
BareFs == (SYSFS_BASE :> Dir)

InitialFs == {FullFs, NitroFs, BothFs, BareFs}

\* what the open() calls of a run raise
Faults == {"none", "PermissionError", "FileNotFoundError", "OSError"}

\* ... of the run that, unhindered, ends as `plain`: a run that opens
\* nothing meets no fault
FaultsOf(plain) == IF plain.opened THEN Faults ELSE {"none"}

\* command lines that pass validation where the feature is there
ValidArgvs ==
    { <<"rgb", "per-zone", "#FF0000">>,
      <<"rgb", "per-zone", "00aaff", "FF0000", "00ff00", "0000FF", "-b", "50">>,
      <<"rgb", "per-zone", "000000", "ffffff", "#00AAFF", "00aaff", "-b", "0">>,
      <<"rgb", "per-zone-get">>,
      <<"rgb", "effect", "Wave", "-s", "3", "-c", "#00FFCC">>,
      <<"rgb", "effect-get">>,
      <<"power", "get">>, <<"power", "list">>, <<"power", "set", "performance">>,
      <<"logo", "get">>, <<"logo", "set", "#00FFCC", "-b", "40", "--off">>,
      <<"fan", "get">>, <<"fan", "auto">>, <<"fan", "set", "50">>,
      <<"fan", "set", "--cpu", "auto", "--gpu", "80">>,
      <<"battery", "get">>, <<"battery", "on">>, <<"battery", "off">>,
      <<"battery", "set", "on">> }

\* command lines whose input fails validation: a bad colour, a brightness,
\* speed, direction or percentage out of range, a wrong number of colours,
\* an unknown mode
InvalidArgvs ==
    { <<"rgb", "per-zone", "GGGGGG">>,
      <<"logo", "set", "red">>,
      <<"rgb", "effect", "static", "-c", "ff00">>,
      <<"rgb", "per-zone", "ff0000", "-b", "101">>,
      <<"logo", "set", "00ffcc", "-b", "-1">>,
      <<"rgb", "effect", "wave", "-s", "10">>,
      <<"rgb", "effect", "wave", "-d", "3">>,
      <<"fan", "set", "150">>,
      <<"fan", "set", "--cpu", "fast">>,
      <<"rgb", "per-zone", "ff0000", "00ff00">>,
      <<"rgb", "effect", "disco">>,
      <<"rgb", "effect", "9">> }

\* a profile the machine does not list, where it lists any
UnsupportedProfileArgv == <<"power", "set", "turbo">>

\* command lines argparse rejects, and requests for help
OtherArgvs ==
    { <<>>, <<"fan">>, <<"fan", "set">>, <<"fan", "bogus">>,
      <<"logo", "set">>, <<"logo", "set", "ff0000", "--on", "--off">>,
      <<"rgb", "per-zone", "ff0000", "-b", "high">>,
      <<"battery", "set", "maybe">>, <<"battery", "get", "--help">> }

Argvs == ValidArgvs \cup InvalidArgvs \cup {UnsupportedProfileArgv} \cup OtherArgvs

\* no nekroctl process has run
NoRun ==
    [n |-> 0, tier |-> "none", argv |-> <<>>, fault |-> "none",
     code |-> 0, stdout |-> "", stderr |-> "", wrote |-> FALSE]

\* the nekroctl process that has just exited; n counts the commands
Run(tier, argv, fault, exit) ==
    [n |-> IF tier \in {"shell", "unpriv"} THEN cli.n + 1 ELSE cli.n, tier |-> tier, argv |-> argv, fault |-> fault,
     code |-> exit.code, stdout |-> exit.stdout, stderr |-> exit.stderr,
     wrote |-> exit.fs # fs]

\* the command line not in use (the other specifications)
CliNotStarted ==
    /\ fs = BareFs
    /\ cli = NoRun

----------------------------------------------------------------------------
(* The front-end as a process: the user's edits, the GLib main loop        *)
(* (timeouts, idle callbacks) and the worker threads.                      *)

\* model bound: worker threads started and not yet reported
MaxThreads == 2

\* program constants
TICK_MS == 100
PER_ZONE_DELAY_US == 400000
EFFECT_DELAY_US == 400000
LOGO_DELAY_US == 400000
FANS_DELAY_MS == 400

\* the values picked on the fans page, and fan_speed as the page finds it:
\* both fans on auto, both at 50 %, or no fan_speed attribute
FanPercents == {80}
FanSpeedsAtStart == {"0,0\n", "50,50\n", ""}

\* the widgets as _build_rgb_page / _build_logo_group / _build_fans_page /
\* _build_power_page create them
PerZoneWidgets ==
    [single_row |-> TRUE, single_color |-> "00aaff",
     z_entries |-> <<"00aaff", "00aaff", "00aaff", "00aaff">>, bright_row |-> 100]

EffectWidgets ==
    [mode_row |-> 3, speed_row |-> 1, bright2_row |-> 100, dir_row |-> 2, color_row |-> ""]

LogoWidgets == [logo_power |-> TRUE, logo_color |-> "00ffcc", logo_brightness |-> 100]

FanWidgets ==
    [link_row |-> FALSE, cpu_auto |-> TRUE, cpu_row |-> 50, gpu_auto |-> TRUE, gpu_row |-> 50]

PowerWidgets ==
    [choices |-> <<"balanced", "performance", "power-saver">>, combo |-> 0]

BatteryWidgets == [battery_row |-> FALSE, sensitive |-> TRUE]

NoSource == [live |-> FALSE, ms |-> 0]

\* the status label as do_activate creates it
NoStatus == [text |-> "", error |-> FALSE]

\* StatusNotifier.info / StatusNotifier.error
info(msg) == [text |-> msg, error |-> FALSE]

error(msg) == [text |-> msg, error |-> TRUE]

\* the main thread is in the GLib main loop, between two handlers
MainLoop == "main loop"

Armed(ms) == [live |-> TRUE, ms |-> ms]

DelayUs(k) ==
    CASE k = "per_zone" -> PER_ZONE_DELAY_US
      [] k = "effect"   -> EFFECT_DELAY_US
      [] k = "logo"     -> LOGO_DELAY_US
      [] OTHER          -> 0

\* the settle period of a key, in ms
SettleMs(k) == IF k = "fan" THEN FANS_DELAY_MS ELSE DelayUs(k) \div 1000

\* History of the intents since the last dispatch decision: whether there
\* are any and more than one, the payload of the last one, whether all of
\* them repeated the payload decided on before, and the time since the last
\* intent; and, for the fans page, whether the widgets were set from the
\* device since the last intent, by a completion handler or by Refresh
NoBurst == [pending |-> FALSE, many |-> FALSE, args |-> <<>>, same |-> TRUE, quiet |-> 0,
            completed |-> FALSE, refreshed |-> FALSE]

\* History of the last dispatch decision, until the next intent
NoFire == [fired |-> FALSE, many |-> FALSE, valid |-> FALSE, sent |-> FALSE,
           carried |-> FALSE, kept |-> FALSE, atbase |-> FALSE, atapplied |-> FALSE,
           quiescent |-> FALSE,
           repeat |-> FALSE, prev_sent |-> FALSE]

\* History of the last dispatch decision, kept across intents
NoPrevFire == [fired |-> FALSE, args |-> <<>>, sent |-> FALSE]

Min(a, b) == IF a < b THEN a ELSE b

\* one more intent in the burst, its payload being args
Intent(b, args, prev) ==
    [pending |-> TRUE, many |-> b.pending, args |-> args,
     same |-> b.same /\ prev.fired /\ args # <<>> /\ args = prev.args,
     quiet |-> 0, completed |-> FALSE, refreshed |-> FALSE]

\* a notify::active / notify::value that _schedule_apply_fans is wired to
FanNotified(w, w2) ==
    \/ w2.cpu_auto # w.cpu_auto
    \/ w2.gpu_auto # w.gpu_auto
    \/ w2.cpu_row # w.cpu_row
    \/ w2.gpu_row # w.gpu_row

\* _schedule_apply_fans() leaving a pending source as it is
schedule_apply_fans_once(id, src, guard) ==
    IF guard \/ src.live THEN [timer_id |-> id, source |-> src]
    ELSE [timer_id |-> SourceId, source |-> Armed(FANS_DELAY_MS)]

\* _schedule_apply_fans(): the pending source is removed and a new one of
\* 400 ms added
schedule_apply_fans(id, src, guard) ==
    IF guard THEN [timer_id |-> id, source |-> src]
    ELSE [timer_id |-> SourceId, source |-> Armed(FANS_DELAY_MS)]

\* refresh() with fans_refreshing left False while the widgets are set
fans_refresh_unguarded(w, text, link_initialized, id, src) ==
    LET w2 == fans_refresh_widgets(w, text, link_initialized)
        t  == IF FanNotified(w, w2) THEN schedule_apply_fans(id, src, FALSE)
              ELSE [timer_id |-> id, source |-> src]
    IN  [widgets |-> w2, timer_id |-> t.timer_id, source |-> t.source,
         refreshing |-> FALSE]

\* refresh() of the fans page: fans_refreshing is True while the widgets
\* are set, so the _schedule_apply_fans() their notify handlers call
\* returns at once, and False again in the finally clause, also when
\* fan_speed is missing or does not hold two numbers
fans_refresh(w, text, link_initialized, id, src) ==
    LET w2 == fans_refresh_widgets(w, text, link_initialized)
        t  == IF FanNotified(w, w2) THEN schedule_apply_fans(id, src, TRUE)
              ELSE [timer_id |-> id, source |-> src]
    IN  [widgets |-> w2, timer_id |-> t.timer_id, source |-> t.source,
         refreshing |-> FALSE]

\* the front-end not started (the specifications of run_privileged)
GuiNotStarted ==
    /\ key = None
    /\ path_exists = FALSE
    /\ widgets = <<>>
    /\ timer_id = None
    /\ source = NoSource
    /\ since_change = 0
    /\ last_args = None
    /\ refreshing = FALSE
    /\ threads = <<>>
    /\ idle = <<>>
    /\ fan_speed = ""
    /\ status = NoStatus
    /\ foreground = MainLoop
    /\ burst = NoBurst
    /\ last_fire = NoFire
    /\ prev_fire = NoPrevFire
    /\ applied = None

\* run_privileged idle (the specification of the front-end abstracts a call
\* of run_privileged by its outcome)
EscNotStarted ==
    /\ pc = "done"
    /\ runs = <<>>
    /\ perm_denied = FALSE
    /\ sudo_requires_password = FALSE
    /\ result = NoResult

\* The window as do_activate leaves it, for the key the user goes on to
\* work with. Building the RGB page ends with _refresh_keyboard(), which
\* calls _per_zone_touch() since the per-zone section starts enabled;
\* building the fans page ends with refresh().
Init ==
    /\ EscNotStarted
    /\ CliNotStarted
    /\ key \in Keys
    /\ path_exists \in (IF key \in {"per_zone", "effect"} THEN BOOLEAN ELSE {TRUE})
    /\ fan_speed \in (IF key = "fan" THEN FanSpeedsAtStart ELSE {""})
    /\ widgets = CASE key = "per_zone" -> PerZoneWidgets
                   [] key = "effect"   -> EffectWidgets
                   [] key = "logo"     -> LogoWidgets
                   [] key = "fan"      ->
                          fans_refresh(FanWidgets, fan_speed, FALSE, None, NoSource).widgets
                   [] key = "power"    -> PowerWidgets
                   [] key = "battery"  -> BatteryWidgets
    /\ timer_id = CASE key = "per_zone" -> SourceId
                    [] key = "fan" ->
                          fans_refresh(FanWidgets, fan_speed, FALSE, None, NoSource).timer_id
                    [] OTHER -> None
    /\ source = CASE key = "per_zone" -> Armed(TICK_MS)
                  [] key = "fan" ->
                        fans_refresh(FanWidgets, fan_speed, FALSE, None, NoSource).source
                  [] OTHER -> NoSource
    /\ since_change = 0
    /\ last_args = None
    /\ refreshing = FALSE
    /\ threads = <<>>
    /\ idle = <<>>
    /\ burst = IF key = "per_zone"
               THEN Intent(NoBurst, compute_args(key, widgets, path_exists), NoPrevFire)
               ELSE NoBurst
    /\ last_fire = NoFire
    /\ prev_fire = NoPrevFire
    /\ applied = None
    /\ status = NoStatus
    /\ foreground = MainLoop

\* a handler can run: the main thread is not inside another one
InMainLoop == foreground = MainLoop

\* room for one more worker thread (the bound of the model)
CanDispatch == Len(threads) + Len(idle) < MaxThreads

\* run_privileged_async(args, _done): a thread is started; _done keeps sig
\* (and, for the battery switch, val)
Thread(args, val) == [args |-> args, sig |-> Sig(args), val |-> val]

Without(seq, i) == SubSeq(seq, 1, i - 1) \o SubSeq(seq, i + 1, Len(seq))

\* what the user changes a page's widgets to: the single-colour switch and,
\* while it is on (the entry is insensitive otherwise), the single colour
PerZoneEdits(w) ==
    {[w EXCEPT !.single_row = ~w.single_row]}
    \cup (IF w.single_row
          THEN {[w EXCEPT !.single_color = c] : c \in SingleColorTexts}
          ELSE {})

\* the mode and the optional colour of the effect

EffectEdits(w) ==
    {[w EXCEPT !.mode_row = m] : m \in EffectModes}
    \cup {[w EXCEPT !.color_row = c] : c \in EffectColorTexts}

\* the power switch and the colour of the back logo
LogoEdits(w) ==
    {[w EXCEPT !.logo_power = ~w.logo_power]}
    \cup {[w EXCEPT !.logo_color = c] : c \in LogoColorTexts}

Edits(k, w) ==
    CASE k = "per_zone" -> PerZoneEdits(w)
      [] k = "effect"   -> EffectEdits(w)
      [] k = "logo"     -> LogoEdits(w)

\* _per_zone_touch / _effect_touch / _logo_touch: note the time; start the
\* 100 ms tick unless it runs
touch(id, src) ==
    IF id # None THEN [timer_id |-> id, source |-> src]
    ELSE [timer_id |-> SourceId, source |-> Armed(TICK_MS)]

\* the elapsed-time test of _tick, with the tick period for the delay
Settled_after_one_tick(k, since) == since >= TICK_MS * 1000

\* the elapsed-time test of _tick
Settled(k, since) == since >= DelayUs(k)

\* _apply_*_now without the comparison with the last applied payload
apply_now_without_baseline(k, w, exists, last) == compute_args(k, w, exists)

\* _apply_per_zone_now / _apply_effect_now / _apply_logo_now: the args
\* handed to run_privileged_async, <<>> when it returns without a call
apply_now(k, w, exists, last) ==
    LET args == compute_args(k, w, exists)
    IN  IF args = <<>> THEN <<>>
        ELSE IF Sig(args) = last THEN <<>>
        ELSE args

\* _apply_fans_now
apply_fans_now(w, guard) ==
    IF guard THEN <<>> ELSE compute_fans_args(w)

\* the record of a firing
Fire(args, sent) ==
    [fired |-> TRUE, many |-> burst.many, valid |-> burst.args # <<>>,
     sent |-> sent # <<>>,
     carried |-> sent = burst.args,
     kept |-> args = burst.args,
     atbase |-> args # <<>> /\ Sig(args) = last_args,
     atapplied |-> args # <<>> /\ Sig(args) = applied,
     quiescent |-> threads = <<>> /\ idle = <<>>,
     repeat |-> burst.same /\ args # <<>> /\ prev_fire.fired /\ args = prev_fire.args,
     prev_sent |-> prev_fire.sent]

\* a widget of the keyboard or logo section changes: notify -> *_touch()
UserEdit ==
    /\ InMainLoop
    /\ key \in TickKeys
    /\ \E w \in Edits(key, widgets) :
         /\ w # widgets
         /\ widgets' = w
         /\ burst' = Intent(burst, compute_args(key, w, path_exists), prev_fire)
    /\ timer_id' = touch(timer_id, source).timer_id
    /\ source' = touch(timer_id, source).source
    /\ since_change' = 0
    /\ last_fire' = NoFire
    /\ UNCHANGED <<foreground, status, key, path_exists, last_args, refreshing,
                   threads, idle, fan_speed, prev_fire, applied>>
    /\ UNCHANGED escVars
    /\ UNCHANGED cliVars

\* *_touch() with the widgets as they are: the section's enable switch is
\* turned on, or _refresh_keyboard finds nothing to change
Touch ==
    /\ InMainLoop
    /\ key \in {"per_zone", "effect"}
    /\ burst' = Intent(burst, compute_args(key, widgets, path_exists), prev_fire)
    /\ timer_id' = touch(timer_id, source).timer_id
    /\ source' = touch(timer_id, source).source
    /\ since_change' = 0
    /\ last_fire' = NoFire
    /\ UNCHANGED <<foreground, status, key, path_exists, widgets, last_args,
                   refreshing, threads, idle, fan_speed, prev_fire, applied>>
    /\ UNCHANGED escVars
    /\ UNCHANGED cliVars

\* 100 ms pass
Advance ==
    /\ source.live
    /\ source.ms > 0 \/ since_change < DelayUs(key)
    /\ source' = [source EXCEPT !.ms = IF @ > TICK_MS THEN @ - TICK_MS ELSE 0]
    /\ since_change' = Min(since_change + TICK_MS * 1000, DelayUs(key))
    /\ burst' = [burst EXCEPT !.quiet = Min(@ + TICK_MS, SettleMs(key))]
    /\ UNCHANGED <<foreground, status, key, path_exists, widgets, timer_id,
                   last_args, refreshing, threads, idle, fan_speed, last_fire,
                   prev_fire, applied>>
    /\ UNCHANGED escVars
    /\ UNCHANGED cliVars

\* _tick of a *_touch: apply and stop once the delay has passed since the
\* last change, else go on ticking
Tick ==
    /\ InMainLoop
    /\ key \in TickKeys
    /\ source.live
    /\ source.ms = 0
    /\ IF Settled(key, since_change)
       THEN LET args == compute_args(key, widgets, path_exists)
                sent == apply_now(key, widgets, path_exists, last_args)
            IN  /\ sent # <<>> => CanDispatch
                /\ threads' = IF sent # <<>> THEN Append(threads, Thread(sent, FALSE))
                              ELSE threads
                /\ timer_id' = None
                /\ source' = NoSource
                /\ last_fire' = Fire(args, sent)
                /\ prev_fire' = [fired |-> TRUE, args |-> args, sent |-> sent # <<>>]
                /\ burst' = NoBurst
       ELSE /\ source' = Armed(TICK_MS)
            /\ UNCHANGED <<threads, timer_id, burst, last_fire, prev_fire>>
    /\ UNCHANGED applied
    /\ UNCHANGED <<foreground, status, key, path_exists, widgets, since_change,
                   last_args, refreshing, idle, fan_speed>>
    /\ UNCHANGED escVars
    /\ UNCHANGED cliVars

\* the fan widgets as the user sets them with the CPU controls ("Both" when
\* linked); an insensitive widget cannot be set
FanEdits(w) ==
    {set_cpu_auto(w, ~w.cpu_auto)}
    \cup (IF ~w.cpu_auto THEN {set_cpu_row(w, v) : v \in FanPercents} ELSE {})

\* the user changes a widget of the fans page
UserFan ==
    /\ InMainLoop
    /\ key = "fan"
    /\ \E w \in FanEdits(widgets) :
         /\ w # widgets
         /\ widgets' = w
         /\ IF FanNotified(widgets, w)
            THEN /\ timer_id' = schedule_apply_fans(timer_id, source, refreshing).timer_id
                 /\ source' = schedule_apply_fans(timer_id, source, refreshing).source
                 /\ burst' = Intent(burst, compute_fans_args(w), prev_fire)
                 /\ last_fire' = NoFire
            ELSE UNCHANGED <<timer_id, source, burst, last_fire>>
    /\ UNCHANGED <<foreground, status, key, path_exists, since_change,
                   last_args, refreshing, threads, idle, fan_speed, prev_fire,
                   applied>>
    /\ UNCHANGED escVars
    /\ UNCHANGED cliVars

\* refresh() of the fans page, from the Refresh button of the header:
\* fans_refreshing is True while the widgets are set, False at the end
RefreshFans ==
    /\ InMainLoop
    /\ key = "fan"
    /\ \E r \in {fans_refresh(widgets, fan_speed, TRUE, timer_id, source)} :
         /\ widgets' = r.widgets
         /\ timer_id' = r.timer_id
         /\ source' = r.source
         /\ refreshing' = r.refreshing
    /\ burst' = IF burst.pending THEN [burst EXCEPT !.refreshed = TRUE] ELSE burst
    /\ status' = info("Refreshed status")
    /\ UNCHANGED <<foreground, key, path_exists,
                   since_change, last_args, threads, idle, fan_speed>>
    /\ UNCHANGED <<last_fire, prev_fire, applied>>
    /\ UNCHANGED escVars
    /\ UNCHANGED cliVars

\* _timeout of _schedule_apply_fans: _apply_fans_now(); the source is
\* removed, fans_debounce_id keeps its id
FansTimeout ==
    /\ InMainLoop
    /\ key = "fan"
    /\ source.live
    /\ source.ms = 0
    /\ LET args == compute_fans_args(widgets)
           sent == apply_fans_now(widgets, refreshing)
       IN  /\ sent # <<>> => CanDispatch
           /\ threads' = IF sent # <<>> THEN Append(threads, Thread(sent, FALSE))
                         ELSE threads
           /\ last_fire' = Fire(args, sent)
           /\ prev_fire' = [fired |-> TRUE, args |-> args, sent |-> sent # <<>>]
    /\ source' = NoSource
    /\ burst' = NoBurst
    /\ UNCHANGED applied
    /\ UNCHANGED <<foreground, status, key, path_exists, widgets, timer_id,
                   since_change, last_args, refreshing, idle, fan_speed>>
    /\ UNCHANGED escVars
    /\ UNCHANGED cliVars

\* _apply_power_from_combo(): the args handed to run_privileged_async
apply_power_from_combo(w, guard) ==
    IF guard THEN <<>>
    ELSE IF Len(w.choices) = 0 \/ w.combo < 0 THEN <<>>
    ELSE <<"power", "set", w.choices[w.combo + 1]>>

\* the user selects another power profile
UserPower ==
    /\ InMainLoop
    /\ key = "power"
    /\ CanDispatch
    /\ \E j \in 0..(Len(widgets.choices) - 1) :
         /\ j # widgets.combo
         /\ widgets' = [widgets EXCEPT !.combo = j]
         /\ LET sent == apply_power_from_combo(widgets', refreshing)
            IN  threads' = IF sent # <<>> THEN Append(threads, Thread(sent, FALSE))
                           ELSE threads
    /\ UNCHANGED <<foreground, status, key, path_exists, timer_id, source,
                   since_change, last_args, refreshing, idle, fan_speed>>
    /\ UNCHANGED histVars
    /\ UNCHANGED escVars
    /\ UNCHANGED cliVars

\* _on_battery_toggle() without its test of power_refreshing
on_battery_toggle_unguarded(val, guard) ==
    <<"battery", IF val THEN "on" ELSE "off">>

\* _on_battery_toggle(): the args handed to run_privileged_async
on_battery_toggle(val, guard) ==
    IF guard THEN <<>> ELSE <<"battery", IF val THEN "on" ELSE "off">>

\* the user flips the battery limiter switch
UserBattery ==
    /\ InMainLoop
    /\ key = "battery"
    /\ widgets.sensitive
    /\ CanDispatch
    /\ widgets' = [widgets EXCEPT !.battery_row = ~@]
    /\ LET val  == widgets'.battery_row
           sent == on_battery_toggle(val, refreshing)
       IN  threads' = IF sent # <<>> THEN Append(threads, Thread(sent, val))
                      ELSE threads
    /\ UNCHANGED <<foreground, status, key, path_exists, timer_id, source,
                   since_change, last_args, refreshing, idle, fan_speed>>
    /\ UNCHANGED histVars
    /\ UNCHANGED escVars
    /\ UNCHANGED cliVars

\* the threads after the notify::selected handler of the profile selector
\* ran for a change from w to w2 made by the program
ComboNotified(ths, w, w2, guard) ==
    IF w2 = w \/ apply_power_from_combo(w2, guard) = <<>> THEN ths
    ELSE Append(ths, Thread(apply_power_from_combo(w2, guard), FALSE))

\* the threads after the notify::active handler of the battery switch ran
\* for battery_row.set_active(val) called by the program
BatteryNotified(ths, w, val, guard) ==
    IF w.battery_row = val \/ on_battery_toggle(val, guard) = <<>> THEN ths
    ELSE Append(ths, Thread(on_battery_toggle(val, guard), val))

\* the keys whose page is read back through run_privileged
ReadbackKeys == {"logo", "power", "battery"}

\* what run_privileged returns for a command that reads: the text of the
\* attribute, or the failure of a tier with its message
ReadResults(cmd) ==
    {Outcome(FALSE, FailedWithCode(1))}
    \cup CASE cmd = "logo get"    -> {Outcome(TRUE, "00ffcc,100,1")}
            [] cmd = "power list"  -> {Outcome(TRUE, "balanced performance")}
            [] cmd = "power get"   -> {Outcome(TRUE, "performance")}
            [] cmd = "battery get" -> {Outcome(TRUE, "0"), Outcome(TRUE, "1")}

\* the run_privileged call a refresh of the key's page starts with
FirstReadback(k) == IF k = "logo" THEN "logo get" ELSE "power list"

\* the user activates Refresh: _on_refresh runs _refresh_logo() / the power
\* page's _wrapped_refresh() on the main thread, up to its first
\* run_privileged(...), where the main thread waits for the process to exit.
\* The user does so while no change of theirs is pending.
Refresh ==
    /\ InMainLoop
    /\ key \in ReadbackKeys
    /\ ~source.live
    /\ foreground' = FirstReadback(key)
    /\ refreshing' = (key # "logo")
    /\ UNCHANGED <<key, path_exists, widgets, timer_id, source, since_change,
                   last_args, threads, idle, fan_speed, status>>
    /\ UNCHANGED histVars
    /\ UNCHANGED escVars
    /\ UNCHANGED cliVars

\* _refresh_logo() from `ok, out = run_privileged(["logo", "get"])` on: the
\* widgets after each of the three set_* calls
refresh_logo_widgets(w, r) ==
    LET parts == Split(r.msg, ",")
    IN  IF ~r.ok \/ r.msg = "" \/ Len(parts) < 3 THEN <<w>>
        ELSE LET hexcol == strip(parts[1])
                 brt    == strip(parts[2])
                 en     == strip(parts[3])
                 w1 == IF hexcol # "" /\ Len(hexcol) = 6
                       THEN [w EXCEPT !.logo_color = hexcol] ELSE w
                 b  == py_int(brt)
                 w2 == IF b.ok /\ b.value >= 0 /\ b.value <= 100
                       THEN [w1 EXCEPT !.logo_brightness = b.value] ELSE w1
                 w3 == [w2 EXCEPT !.logo_power = (en = "1")]
             IN  <<w, w1, w2, w3>>

RECURSIVE Notified(_, _, _)
\* the burst after the notify handlers of the widget changes ws[2..] ran
Notified(b, ws, prev) ==
    IF Len(ws) < 2 THEN b
    ELSE Notified(IF ws[2] # ws[1] THEN Intent(b, compute_logo_args(ws[2]), prev) ELSE b,
                  Tail(ws), prev)

\* refresh() of the power page from `ok_list, list_out = run_privileged(...)`
\* to the next run_privileged
refresh_power_choices(w, r) ==
    IF r.ok /\ r.msg # ""
    THEN [w EXCEPT !.choices = StrippedNonEmpty(Split(r.msg, " "))]
    ELSE [w EXCEPT !.choices = <<"balanced", "performance", "power-saver">>]

\* ... from `ok_cur, cur_out = run_privileged(["power", "get"])` to the next
refresh_power_current(w, r) ==
    LET current == IF r.ok /\ r.msg # "" THEN r.msg ELSE ""
    IN  IF \E i \in 1..Len(w.choices) : w.choices[i] = current
        THEN [w EXCEPT !.combo =
                 (CHOOSE i \in 1..Len(w.choices) :
                     w.choices[i] = current
                     /\ \A j \in 1..(i - 1) : w.choices[j] # current) - 1]
        ELSE IF Len(w.choices) > 0 THEN [w EXCEPT !.combo = 0]
        ELSE w

\* ... from `ok_bat, bat_out = run_privileged(["battery", "get"])` to the end
refresh_battery(w, r) ==
    LET t     == strip(r.msg)
        value == IF r.ok /\ r.msg # "" /\ IsDigits(t) THEN int(t) ELSE 0
    IN  [battery_row |-> (value = 1), sensitive |-> r.ok]

\* the process the main thread waits for exits: run_privileged returns, the
\* refresh goes on to its next run_privileged or to its end, where
\* _on_refresh shows "Refreshed status" and returns to the main loop
ReadbackReturns ==
    /\ ~InMainLoop
    /\ \E r \in ReadResults(foreground) :
         CASE foreground = "logo get" ->
                LET ws == refresh_logo_widgets(widgets, r)
                    w  == ws[Len(ws)]
                    touched == \E i \in 2..Len(ws) : ws[i] # ws[i - 1]
                IN  /\ widgets' = w
                    /\ burst' = Notified(burst, ws, prev_fire)
                    /\ timer_id' = IF touched THEN touch(timer_id, source).timer_id
                                   ELSE timer_id
                    /\ source' = IF touched THEN touch(timer_id, source).source
                                 ELSE source
                    /\ since_change' = IF touched THEN 0 ELSE since_change
                    /\ last_fire' = IF touched THEN NoFire ELSE last_fire
                    /\ foreground' = MainLoop
                    /\ status' = info("Refreshed status")
                    /\ UNCHANGED <<refreshing, threads>>
           [] foreground = "power list" ->
                /\ widgets' = IF key = "power" THEN refresh_power_choices(widgets, r)
                              ELSE widgets
                /\ threads' = IF key = "power"
                              THEN ComboNotified(threads, widgets, widgets', refreshing)
                              ELSE threads
                /\ foreground' = "power get"
                /\ UNCHANGED <<burst, timer_id, source, since_change, last_fire,
                               status, refreshing>>
           [] foreground = "power get" ->
                /\ widgets' = IF key = "power" THEN refresh_power_current(widgets, r)
                              ELSE widgets
                /\ threads' = IF key = "power"
                              THEN ComboNotified(threads, widgets, widgets', refreshing)
                              ELSE threads
                /\ foreground' = "battery get"
                /\ UNCHANGED <<burst, timer_id, source, since_change, last_fire,
                               status, refreshing>>
           [] foreground = "battery get" ->
                /\ widgets' = IF key = "battery" THEN refresh_battery(widgets, r)
                              ELSE widgets
                /\ threads' = IF key = "battery"
                              THEN BatteryNotified(threads, widgets, widgets'.battery_row,
                                                   TRUE)
                              ELSE threads
                /\ foreground' = MainLoop
                /\ refreshing' = FALSE
                /\ status' = info("Refreshed status")
                /\ UNCHANGED <<burst, timer_id, source, since_change, last_fire>>
    /\ UNCHANGED <<key, path_exists, last_args, idle, fan_speed, prev_fire,
                   applied>>
    /\ UNCHANGED escVars
    /\ UNCHANGED cliVars

\* what run_privileged returns for a command that sets something: success,
\* or the failure of a tier with its message
Results == {Outcome(TRUE, "OK"), Outcome(FALSE, FailedWithCode(1))}

\* _worker of run_privileged_async: run_privileged returns ok and the
\* callback is queued with GLib.idle_add; a successful `fan` command has
\* written fan_speed (the command fails when there is no fan_speed)
WorkerExit ==
    /\ \E i \in 1..Len(threads), r \in Results :
         /\ (key = "fan" /\ fan_speed = "") => ~r.ok
         /\ threads' = Without(threads, i)
         /\ idle' = Append(idle, [thread |-> threads[i], ok |-> r.ok, msg |-> r.msg])
         /\ fan_speed' = IF key = "fan" /\ r.ok THEN cmd_fan_payload(threads[i].args)
                         ELSE fan_speed
    /\ UNCHANGED <<foreground, status, key, path_exists, widgets, timer_id,
                   source, since_change, last_args, refreshing>>
    /\ UNCHANGED histVars
    /\ UNCHANGED escVars
    /\ UNCHANGED cliVars

\* the text _done(True, msg) hands to notifier.info
DoneText(k, thread) ==
    CASE k = "per_zone" -> "Keyboard static colors applied"
      [] k = "effect"   -> "Keyboard effect applied"
      [] k = "logo"     -> "Back logo updated"
      [] k = "fan"      -> "Fan settings applied"
      [] k = "power"    -> "Power profile set to " \o thread.args[3]
      [] k = "battery"  -> IF thread.val THEN "Battery limit enabled"
                           ELSE "Battery limit disabled"

\* _done taking the payload for applied whatever ok is
done_baseline_whatever_ok(ok, sig, last) == sig

\* _done(ok, msg) of _apply_per_zone_now / _apply_effect_now /
\* _apply_logo_now: the value of last_*_args it leaves
done_baseline(ok, sig, last) == IF ok THEN sig ELSE last

\* the main loop runs the oldest queued _done(ok, msg)
IdleDispatch ==
    /\ InMainLoop
    /\ idle # <<>>
    /\ LET d == Head(idle)
       IN  /\ last_args' = IF key \in TickKeys
                            THEN done_baseline(d.ok, d.thread.sig, last_args)
                            ELSE last_args
           /\ IF key = "fan" /\ d.ok
              THEN \E r \in {fans_refresh(widgets, fan_speed, TRUE, timer_id, source)} :
                     /\ widgets' = r.widgets
                     /\ timer_id' = r.timer_id
                     /\ source' = r.source
                     /\ refreshing' = r.refreshing
                     /\ burst' = IF burst.pending
                                 THEN [burst EXCEPT !.completed = TRUE] ELSE burst
                     /\ UNCHANGED threads
              ELSE /\ widgets' = IF key = "battery" /\ ~d.ok
                                 THEN [widgets EXCEPT !.battery_row = ~d.thread.val]
                                 ELSE widgets
                   /\ threads' = IF key = "battery" /\ ~d.ok
                                 THEN BatteryNotified(threads, widgets, ~d.thread.val, TRUE)
                                 ELSE threads
                   /\ UNCHANGED <<timer_id, source, burst, refreshing>>
           /\ status' = IF d.ok THEN info(DoneText(key, d.thread)) ELSE error(d.msg)
           /\ applied' = IF d.ok THEN d.thread.sig ELSE applied
    /\ idle' = Tail(idle)
    /\ UNCHANGED <<foreground, key, path_exists,
                   since_change, fan_speed, last_fire,
                   prev_fire>>
    /\ UNCHANGED escVars
    /\ UNCHANGED cliVars

Next ==
    \/ UserEdit
    \/ Touch
    \/ UserFan
    \/ RefreshFans
    \/ UserPower
    \/ UserBattery
    \/ Refresh
    \/ ReadbackReturns
    \/ Advance
    \/ Tick
    \/ FansTimeout
    \/ WorkerExit
    \/ IdleDispatch

Spec == Init /\ [][Next]_vars

----------------------------------------------------------------------------
(* run_privileged as a process: one action per external invocation, each   *)
(* running the code up to the next invocation or the return.               *)

EscInit ==
    /\ pc = "unpriv"
    /\ runs = <<>>
    /\ perm_denied = FALSE
    /\ sudo_requires_password = FALSE
    /\ result = NoResult
    /\ GuiNotStarted
    /\ CliNotStarted

\* code, out, err = _run_nekroctl(args) ... down to the call of _run_with_sudo
RunUnprivileged ==
    /\ pc = "unpriv"
    /\ \E c \in ExitCodes, o \in Stdouts, e \in NekroctlStderrs :
         LET r1 == run_nekroctl(Proc(c, o, e))
             nxt == AfterUnprivileged(r1)
         IN  /\ runs' = Append(runs, Ran("unpriv", r1))
             /\ perm_denied' = IF r1.code = 0 THEN perm_denied
                               ELSE classify_perm_denied(r1.code, r1.err)
             /\ pc' = nxt.pc
             /\ result' = nxt.result
    /\ UNCHANGED sudo_requires_password
    /\ UNCHANGED guiVars
    /\ UNCHANGED histVars
    /\ UNCHANGED cliVars

\* code2, out2, err2 = _run_with_sudo(args) ... down to the call of _run_with_pkexec
RunSudo ==
    /\ pc = "sudo"
    /\ \E have \in BOOLEAN, c \in ExitCodes, o \in Stdouts, e \in SudoStderrs :
         LET r2 == run_with_sudo(have, Proc(c, o, e))
             nxt == AfterSudo(runs[1], r2)
         IN  /\ runs' = Append(runs, Ran("sudo", r2))
             /\ sudo_requires_password' =
                    IF r2.code = 0 THEN sudo_requires_password
                    ELSE classify_sudo_requires_password(r2.code, r2.err)
             /\ pc' = nxt.pc
             /\ result' = nxt.result
    /\ UNCHANGED perm_denied
    /\ UNCHANGED guiVars
    /\ UNCHANGED histVars
    /\ UNCHANGED cliVars

\* code3, out3, err3 = _run_with_pkexec(args) ... down to the return
RunPkexec ==
    /\ pc = "pkexec"
    /\ \E have \in BOOLEAN, c \in ExitCodes, o \in Stdouts, e \in PkexecStderrs :
         LET r3 == run_with_pkexec(have, Proc(c, o, e))
             nxt == AfterPkexec(runs[1], runs[2], r3)
         IN  /\ runs' = Append(runs, Ran("pkexec", r3))
             /\ pc' = nxt.pc
             /\ result' = nxt.result
    /\ UNCHANGED <<perm_denied, sudo_requires_password>>
    /\ UNCHANGED guiVars
    /\ UNCHANGED histVars
    /\ UNCHANGED cliVars

\* the caller takes the result; run_privileged is called again
Call ==
    /\ pc = "done"
    /\ pc' = "unpriv"
    /\ runs' = <<>>
    /\ perm_denied' = FALSE
    /\ sudo_requires_password' = FALSE
    /\ result' = NoResult
    /\ UNCHANGED guiVars
    /\ UNCHANGED histVars
    /\ UNCHANGED cliVars

EscNext == RunUnprivileged \/ RunSudo \/ RunPkexec \/ Call

EscSpec == EscInit /\ [][EscNext]_vars

\* the external processes exit, and the caller goes on
EscFairSpec == EscSpec /\ WF_vars(EscNext)

----------------------------------------------------------------------------
(* The command line as a process (CliSpec): commands typed at a shell, and *)
(* the commands the front-end hands to run_privileged on a worker thread,  *)
(* whose tiers run nekroctl itself on the attribute files.                 *)

\* the front-end's keyboard page on the machine, nothing running
CliInit ==
    /\ fs \in InitialFs
    /\ cli = NoRun
    /\ EscNotStarted
    /\ key = "per_zone"
    /\ path_exists = cli_path_exists(fs, KB_PER_ZONE)
    /\ widgets = PerZoneWidgets
    /\ timer_id = None
    /\ source = NoSource
    /\ since_change = 0
    /\ last_args = None
    /\ refreshing = FALSE
    /\ threads = <<>>
    /\ idle = <<>>
    /\ fan_speed = ""
    /\ status = NoStatus
    /\ foreground = MainLoop
    /\ burst = NoBurst
    /\ last_fire = NoFire
    /\ prev_fire = NoPrevFire
    /\ applied = None

\* no worker thread is in run_privileged, no callback is queued
NoWorker == threads = <<>> /\ idle = <<>>

\* the keyboard page as it was built: a command reads and writes none of
\* it, so the commands are followed from this page only
PageUntouched == widgets = PerZoneWidgets /\ status = NoStatus

\* `nekroctl argv` typed at a shell: main(argv) from start to exit
Shell ==
    /\ NoWorker
    /\ PageUntouched
    /\ cli.n < MaxCommands
    /\ \E argv \in Argvs :
         \E plain \in {main(argv, fs, "none")} :
         \E fault \in FaultsOf(plain) :
         \E exit \in {IF fault = "none" THEN plain ELSE main(argv, fs, fault)} :
             /\ cli' = Run("shell", argv, fault, exit)
             /\ fs' = exit.fs
    /\ UNCHANGED escVars
    /\ UNCHANGED guiVars
    /\ UNCHANGED histVars

\* _apply_per_zone_now(), as the settle timer calls it, on the page as the
\* user's last edit left it: a worker thread is started in run_privileged,
\* or nothing is
ApplyNow ==
    /\ NoWorker
    /\ cli.n < MaxCommands
    /\ \E w \in {widgets} \cup PerZoneEdits(widgets) :
         LET sent == apply_now(key, w, path_exists, last_args)
         IN  /\ widgets' = w
             /\ threads' = IF sent # <<>> THEN <<Thread(sent, FALSE)>> ELSE threads
             /\ pc' = IF sent # <<>> THEN "unpriv" ELSE pc
             /\ runs' = IF sent # <<>> THEN <<>> ELSE runs
             /\ result' = IF sent # <<>> THEN NoResult ELSE result
             /\ perm_denied' = IF sent # <<>> THEN FALSE ELSE perm_denied
             /\ sudo_requires_password' =
                    IF sent # <<>> THEN FALSE ELSE sudo_requires_password
    /\ UNCHANGED <<key, path_exists, timer_id, source, since_change, last_args,
                   refreshing, idle, fan_speed, status, foreground>>
    /\ UNCHANGED histVars
    /\ UNCHANGED cliVars

\* run_privileged_async(args, on_done) of any page: the thread is started
Submit ==
    /\ NoWorker
    /\ PageUntouched
    /\ cli.n < MaxCommands
    /\ \E argv \in Argvs :
         /\ argv # <<>>
         /\ threads' = <<Thread(argv, FALSE)>>
    /\ pc' = "unpriv"
    /\ runs' = <<>>
    /\ result' = NoResult
    /\ perm_denied' = FALSE
    /\ sudo_requires_password' = FALSE
    /\ UNCHANGED <<key, path_exists, widgets, timer_id, source, since_change,
                   last_args, refreshing, idle, fan_speed, status, foreground>>
    /\ UNCHANGED histVars
    /\ UNCHANGED cliVars

\* code, out, err = _run_nekroctl(args) ... down to the call of
\* _run_with_sudo, the process being nekroctl on the attribute files
CliRunUnprivileged ==
    /\ pc = "unpriv"
    /\ threads # <<>>
    /\ \E argv \in {threads[1].args} :
         \E plain \in {main(argv, fs, "none")} :
         \E fault \in FaultsOf(plain) :
         \E exit \in {IF fault = "none" THEN plain ELSE main(argv, fs, fault)} :
         \E r1 \in {run_nekroctl(Proc(exit.code, exit.stdout, exit.stderr))} :
         \E nxt \in {AfterUnprivileged(r1)} :
             /\ cli' = Run("unpriv", argv, fault, exit)
             /\ fs' = exit.fs
             /\ runs' = Append(runs, Ran("unpriv", r1))
             /\ perm_denied' = IF r1.code = 0 THEN perm_denied
                               ELSE classify_perm_denied(r1.code, r1.err)
             /\ pc' = nxt.pc
             /\ result' = nxt.result
    /\ UNCHANGED sudo_requires_password
    /\ UNCHANGED guiVars
    /\ UNCHANGED histVars

\* what `sudo -n` / pkexec answer when they do not run the command
SudoRefusal == Proc(1, "", "sudo: a password is required\n")
PkexecRefusal == Proc(127, "", "Error executing command as another user: Not authorized\n")

\* the command not run: the answer, the files as they were
Refused(answer) == Exit(answer.code, answer.out, answer.err, fs)

\* code2, out2, err2 = _run_with_sudo(args) ... down to the call of
\* _run_with_pkexec: sudo runs nekroctl as root, or refuses
CliRunSudo ==
    /\ pc = "sudo"
    /\ threads # <<>>
    /\ \E have \in BOOLEAN, allowed \in BOOLEAN, argv \in {threads[1].args} :
         \E root \in {have /\ allowed} :
         \E exit \in {IF root THEN main(argv, fs, "none") ELSE Refused(SudoRefusal)} :
         \E proc \in {Proc(exit.code, exit.stdout, exit.stderr)} :
         \E r2 \in {run_with_sudo(have, proc)} :
         \E nxt \in {AfterSudo(runs[1], r2)} :
             /\ cli' = IF root THEN Run("sudo", argv, "none", exit) ELSE cli
             /\ fs' = exit.fs
             /\ runs' = Append(runs, Ran("sudo", r2))
             /\ sudo_requires_password' =
                    IF r2.code = 0 THEN sudo_requires_password
                    ELSE classify_sudo_requires_password(r2.code, r2.err)
             /\ pc' = nxt.pc
             /\ result' = nxt.result
    /\ UNCHANGED perm_denied
    /\ UNCHANGED guiVars
    /\ UNCHANGED histVars

\* code3, out3, err3 = _run_with_pkexec(args) ... down to the return
CliRunPkexec ==
    /\ pc = "pkexec"
    /\ threads # <<>>
    /\ \E have \in BOOLEAN, allowed \in BOOLEAN, argv \in {threads[1].args} :
         \E root \in {have /\ allowed} :
         \E exit \in {IF root THEN main(argv, fs, "none") ELSE Refused(PkexecRefusal)} :
         \E proc \in {Proc(exit.code, exit.stdout, exit.stderr)} :
         \E r3 \in {run_with_pkexec(have, proc)} :
         \E nxt \in {AfterPkexec(runs[1], runs[2], r3)} :
             /\ cli' = IF root THEN Run("pkexec", argv, "none", exit) ELSE cli
             /\ fs' = exit.fs
             /\ runs' = Append(runs, Ran("pkexec", r3))
             /\ pc' = nxt.pc
             /\ result' = nxt.result
    /\ UNCHANGED <<perm_denied, sudo_requires_password>>
    /\ UNCHANGED guiVars
    /\ UNCHANGED histVars

\* _worker of run_privileged_async: run_privileged has returned, the
\* callback is queued with GLib.idle_add
CliWorkerExit ==
    /\ pc = "done"
    /\ threads # <<>>
    /\ threads' = <<>>
    /\ idle' = <<[thread |-> threads[1], ok |-> result.ok, msg |-> result.msg]>>
    /\ UNCHANGED <<key, path_exists, widgets, timer_id, source, since_change,
                   last_args, refreshing, fan_speed, status, foreground>>
    /\ UNCHANGED escVars
    /\ UNCHANGED histVars
    /\ UNCHANGED cliVars

\* the per-zone block of _refresh_keyboard(): the widgets after it
refresh_keyboard_per_zone_keeping_switch(w, files) ==
    LET raw   == cli_read_text(files, KB_PER_ZONE)
        parts == StrippedNonEmpty(Split(raw, ","))
        b     == IF py_int(parts[5]).ok THEN py_int(parts[5]).value ELSE w.bright_row
        bare(c) == IF strip(c) # "" /\ Head(strip(c)) = "#" THEN Tail(strip(c))
                   ELSE strip(c)
        cols  == SelectSeq([i \in 1..4 |-> lower(bare(parts[i]))], LAMBDA c : Len(c) = 6)
        all_eq == \A i \in 1..Len(cols) : cols[i] = cols[1]
        w1    == IF all_eq THEN [w EXCEPT !.single_color = cols[1]]
                 ELSE [w EXCEPT !.z_entries = cols]
    IN  IF ~cli_path_exists(files, KB_PER_ZONE) THEN w
        ELSE IF Len(parts) < 5 THEN w
        ELSE IF Len(cols) # 4 THEN w
        ELSE IF 0 <= b /\ b <= 100 THEN [w1 EXCEPT !.bright_row = b]
        ELSE w1

\* the per-zone block of _refresh_keyboard(): the widgets after it
refresh_keyboard_per_zone(w, files) ==
    LET raw   == cli_read_text(files, KB_PER_ZONE)
        parts == StrippedNonEmpty(Split(raw, ","))
        b     == IF py_int(parts[5]).ok THEN py_int(parts[5]).value ELSE w.bright_row
        bare(c) == IF strip(c) # "" /\ Head(strip(c)) = "#" THEN Tail(strip(c))
                   ELSE strip(c)
        cols  == SelectSeq([i \in 1..4 |-> lower(bare(parts[i]))], LAMBDA c : Len(c) = 6)
        all_eq == \A i \in 1..Len(cols) : cols[i] = cols[1]
        w0    == [w EXCEPT !.single_row = all_eq]
        w1    == IF all_eq THEN [w0 EXCEPT !.single_color = cols[1]]
                 ELSE [w0 EXCEPT !.z_entries = cols]
    IN  IF ~cli_path_exists(files, KB_PER_ZONE) THEN w
        ELSE IF Len(parts) < 5 THEN w
        ELSE IF Len(cols) # 4 THEN w
        ELSE IF 0 <= b /\ b <= 100 THEN [w1 EXCEPT !.bright_row = b]
        ELSE w1

RECURSIVE py_hex(_)
\* f"{n:x}" for n >= 0
py_hex(n) ==
    IF n < 16 THEN Char("0123456789abcdef", n + 1)
    ELSE py_hex(n \div 16) \o Char("0123456789abcdef", (n % 16) + 1)

\* f"{n:02x}": at least two characters, the sign counted
py_hex02(n) ==
    IF n < 0 THEN "-" \o py_hex(0 - n)
    ELSE IF n < 16 THEN "0" \o py_hex(n)
    ELSE py_hex(n)

\* the effect block of _refresh_keyboard(): the widgets after it
refresh_keyboard_effect(w, files) ==
    LET raw   == cli_read_text(files, KB_FOUR_MODE)
        parts == StrippedNonEmpty(Split(raw, ","))
        n     == [i \in 1..7 |-> py_int(parts[i])]
        ok    == \A i \in 1..7 : n[i].ok
        spd   == IF ok THEN n[2].value ELSE w.speed_row
        brt   == IF ok THEN n[3].value ELSE w.bright2_row
        direc == IF ok THEN n[4].value ELSE w.dir_row
        r     == IF ok THEN n[5].value ELSE 0
        g     == IF ok THEN n[6].value ELSE 0
        b     == IF ok THEN n[7].value ELSE 0
        w1    == IF ok /\ n[1].value \in 0..7 THEN [w EXCEPT !.mode_row = n[1].value] ELSE w
        w2    == IF 0 <= spd /\ spd <= 9 THEN [w1 EXCEPT !.speed_row = spd] ELSE w1
        w3    == IF 0 <= brt /\ brt <= 100 THEN [w2 EXCEPT !.bright2_row = brt] ELSE w2
        w4    == IF 1 <= direc /\ direc <= 2 THEN [w3 EXCEPT !.dir_row = direc] ELSE w3
    IN  IF ~cli_path_exists(files, KB_FOUR_MODE) THEN w
        ELSE IF Len(parts) < 7 THEN w
        ELSE IF r = 0 /\ g = 0 /\ b = 0 THEN [w4 EXCEPT !.color_row = ""]
        ELSE [w4 EXCEPT !.color_row = py_hex02(r) \o py_hex02(g) \o py_hex02(b)]

\* the user activates Refresh: the per-zone block of _refresh_keyboard()
\* reads per_zone_mode into the page
DecodePerZone ==
    /\ NoWorker
    /\ key = "per_zone"
    /\ widgets' = refresh_keyboard_per_zone(widgets, fs)
    /\ status' = info("Refreshed status")
    /\ UNCHANGED <<key, path_exists, timer_id, source, since_change, last_args,
                   refreshing, threads, idle, fan_speed, foreground>>
    /\ UNCHANGED escVars
    /\ UNCHANGED histVars
    /\ UNCHANGED cliVars

CliNext ==
    \/ Shell
    \/ ApplyNow
    \/ Submit
    \/ CliRunUnprivileged
    \/ CliRunSudo
    \/ CliRunPkexec
    \/ CliWorkerExit
    \/ IdleDispatch
    \/ DecodePerZone

CliSpec == CliInit /\ [][CliNext]_vars

----------------------------------------------------------------------------
(* The commands of nekroctl one by one on the attribute files,             *)
(* specification CmdSpec: each action runs main(argv) from start to exit   *)
(* for the command lines of one group of commands.                         *)

\* model bound: colours on a per-zone command line
MaxColors == 6

\* colours for the command lines, canonical
Palette == <<"ff0000", "00ff00", "0000ff", "ffffff", "000000", "00aaff">>

\* the first n of them, going round
Colors(n) == [i \in 1..n |-> Palette[((i - 1) % Len(Palette)) + 1]]

\* per-zone command lines with 0..MaxColors colours, with and without -b
PerZoneCountArgvs ==
    {<<"rgb", "per-zone">> \o Colors(n) \o b :
        n \in 0..MaxColors, b \in {<<>>, <<"-b", "50">>}}

\* colour arguments that are valid, and the colour each stands for
ColorArgs ==
    ("ff0000" :> "ff0000") @@ ("#FF0000" :> "ff0000") @@ ("00AAff" :> "00aaff")
    @@ ("00aaff" :> "00aaff")
    @@ ("#00ffcc" :> "00ffcc") @@ ("000000" :> "000000")

\* brightness options, and the brightness each stands for
BrightnessArgs ==
    (<<>> :> 100) @@ (<<"-b", "0">> :> 0) @@ (<<"-b", "50">> :> 50)
    @@ (<<"--brightness", "100">> :> 100) @@ (<<"-b", "101">> :> 101)
    @@ (<<"-b", "-1">> :> 0 - 1)

\* the colours of a per-zone command line: one, or four
ZoneArgs ==
    {<<c>> : c \in DOMAIN ColorArgs}
    \cup {<<"#FF0000", "00AAff", "000000", "#00ffcc">>,
          <<"00AAff", "00AAff", "ff0000", "00AAff">>}

\* per-zone command lines with valid colours and every brightness option
PerZoneEncodeArgvs ==
    {<<"rgb", "per-zone">> \o z \o b : z \in ZoneArgs, b \in DOMAIN BrightnessArgs}

\* texts given as the colour of a per-zone command, and what the rule "trim,
\* drop one leading '#', exactly six hex digits, lowercase" makes of each
\* ("" where the rule rejects)
ColorProbes ==
    ("#00aaFF" :> "00aaff") @@ ("GGGGGG" :> "") @@ (" ff0000 " :> "ff0000")
    @@ ("\t#ABCDEF\n" :> "abcdef") @@ ("##ff0000" :> "") @@ ("# ff0000" :> "")
    @@ ("ff0000#" :> "") @@ ("ff000" :> "") @@ ("ff00000" :> "") @@ ("#" :> "")
    @@ ("" :> "") @@ ("ff 000" :> "") @@ ("0x00ff" :> "") @@ ("#12345g" :> "")
    @@ ("0123456789abcdef" :> "") @@ ("A0b1C2" :> "a0b1c2") @@ ("#fff" :> "")
    @@ ("red" :> "") @@ ("#999999" :> "999999")

\* per-zone command lines with one of these texts as the colour
PerZoneProbeArgvs == {<<"rgb", "per-zone", t>> : t \in DOMAIN ColorProbes}

PerZoneArgvs == PerZoneCountArgvs \cup PerZoneEncodeArgvs \cup PerZoneProbeArgvs

\* texts given as the mode of an effect command, and the id each stands for
\* (-1 where it is neither a name of the table nor an integer 0..7)
ModeArgs ==
    ("static" :> 0) @@ ("Breathing" :> 1) @@ ("NEON" :> 2) @@ ("Wave" :> 3)
    @@ ("shifting" :> 4) @@ ("ZOOM" :> 5) @@ ("meteor" :> 6) @@ ("twinkling" :> 7)
    @@ ("0" :> 0) @@ ("3" :> 3) @@ ("7" :> 7)
    @@ ("8" :> 0 - 1) @@ ("10" :> 0 - 1) @@ ("-1" :> 0 - 1) @@ ("disco" :> 0 - 1)
    @@ ("wav" :> 0 - 1) @@ (" wave" :> 0 - 1) @@ ("3.5" :> 0 - 1)

\* effect command lines with one of these modes and no option
EffectModeArgvs == {<<"rgb", "effect", m>> : m \in DOMAIN ModeArgs}

\* colours given with -c, and the channels of each ("" for no -c)
ChannelArgs ==
    ("" :> <<0, 0, 0>>) @@ ("#00FFCC" :> <<0, 255, 204>>) @@ ("ff0000" :> <<255, 0, 0>>)

\* speed, brightness, direction and colour of the effect command lines:
\* every combination of a value in range and one out of range, and the ends
\* of each range
EffectFields ==
    [speed : {3, 10}, brightness : {80, 101}, direction : {1, 3}, color : {"", "#00FFCC"}]
    \cup [speed : {0, 9, 0 - 1}, brightness : {80}, direction : {1}, color : {""}]
    \cup [speed : {3}, brightness : {0, 100, 0 - 1}, direction : {1}, color : {"ff0000"}]
    \cup [speed : {3}, brightness : {80}, direction : {0, 2}, color : {""}]

\* nekroctl rgb effect wave -s S -b B -d D [-c COLOR]
EffectArgv(f) ==
    <<"rgb", "effect", "wave", "-s", py_str(f.speed), "-b", py_str(f.brightness),
      "-d", py_str(f.direction)>>
    \o (IF f.color = "" THEN <<>> ELSE <<"-c", f.color>>)

EffectFieldArgvs == {EffectArgv(f) : f \in EffectFields}

EffectArgvs == EffectModeArgvs \cup EffectFieldArgvs

\* texts given as a fan value, and the percentage each stands for (-1 where
\* it is not "auto", "a" or an integer 0..100)
FanArgs ==
    ("auto" :> 0) @@ ("a" :> 0) @@ ("AUTO" :> 0) @@ (" a " :> 0) @@ ("0" :> 0)
    @@ ("1" :> 1) @@ ("50" :> 50) @@ ("100" :> 100)
    @@ ("101" :> 0 - 1) @@ ("150" :> 0 - 1) @@ ("-1" :> 0 - 1) @@ ("fast" :> 0 - 1)
    @@ ("1.5" :> 0 - 1) @@ ("" :> 0 - 1)

\* fan values given in pairs
FanPairArgs == {"auto", "0", "50", "100", "101", "fast"}

\* fan command lines, each with the text that stands for the CPU fan and
\* the one for the GPU fan: one value, two values, --cpu, --gpu, both
FanLines ==
    {<<(<<"fan", "set", v>>), v, v>> : v \in DOMAIN FanArgs}
    \cup {<<(<<"fan", "set", c, g>>), c, g>> : c \in FanPairArgs, g \in FanPairArgs}
    \cup {<<(<<"fan", "set", "--cpu", v>>), v, v>> : v \in FanPairArgs}
    \cup {<<(<<"fan", "set", "--gpu", v>>), v, v>> : v \in FanPairArgs}
    \cup {<<(<<"fan", "set", "--gpu", g, "--cpu", c>>), c, g>> :
             c \in {"a", "1", "101"}, g \in {"AUTO", "100", "-1"}}
    \cup {<<(<<"fan", "auto">>), "auto", "auto">>}

FanArgvs == {l[1] : l \in FanLines}

\* texts given as the mode of `battery set`, and the state each stands for
\* (-1 where it is neither a truthy nor a falsy spelling)
BatteryArgs ==
    ("1" :> 1) @@ ("on" :> 1) @@ ("true" :> 1) @@ ("yes" :> 1) @@ ("y" :> 1)
    @@ ("enable" :> 1) @@ ("enabled" :> 1) @@ ("ON" :> 1) @@ (" Yes " :> 1)
    @@ ("0" :> 0) @@ ("off" :> 0) @@ ("false" :> 0) @@ ("no" :> 0) @@ ("n" :> 0)
    @@ ("disable" :> 0) @@ ("disabled" :> 0) @@ ("Off" :> 0) @@ ("FALSE\n" :> 0)
    @@ ("maybe" :> 0 - 1) @@ ("2" :> 0 - 1) @@ ("10" :> 0 - 1) @@ ("onn" :> 0 - 1)
    @@ ("" :> 0 - 1) @@ ("o n" :> 0 - 1) @@ ("-1" :> 0 - 1)

BatterySetArgvs == {<<"battery", "set", t>> : t \in DOMAIN BatteryArgs}

BatteryArgvs == BatterySetArgvs \cup {<<"battery", "on">>, <<"battery", "off">>}

\* a machine whose firmware lists no profile
EmptyChoicesFs == [FullFs EXCEPT ![PLATFORM_PROFILE_CHOICES] = "\n"]

\* one whose list has three profiles, spaced unevenly
SpacedChoicesFs ==
    [FullFs EXCEPT ![PLATFORM_PROFILE_CHOICES] = " low-power  balanced performance \n"]

CmdFs == InitialFs \cup {EmptyChoicesFs, SpacedChoicesFs}

\* the profiles each content of platform_profile_choices lists
ChoiceLists ==
    ("balanced performance\n" :> {"balanced", "performance"})
    @@ ("\n" :> {})
    @@ (" low-power  balanced performance \n" :> {"low-power", "balanced", "performance"})

\* profiles given to `power set`
PowerArgs ==
    {"balanced", "performance", "low-power", "turbo", "quiet", "Balanced", "balanced ",
     "balanced performance", "perf", ""}

PowerArgvs == {<<"power", "set", p>> : p \in PowerArgs}

CmdInit ==
    /\ fs \in CmdFs
    /\ cli = NoRun
    /\ EscNotStarted
    /\ GuiNotStarted

\* `nekroctl argv` for one of the command lines: main(argv) from start to
\* exit, every open() succeeding
Invoke(argvs) ==
    /\ cli.n < MaxCommands
    /\ \E argv \in argvs :
         \E exit \in {main(argv, fs, "none")} :
             /\ cli' = Run("shell", argv, "none", exit)
             /\ fs' = exit.fs
    /\ UNCHANGED escVars
    /\ UNCHANGED guiVars
    /\ UNCHANGED histVars

\* nekroctl rgb per-zone ...
PerZoneCommand == Invoke(PerZoneArgvs)

\* nekroctl rgb effect ...
EffectCommand == Invoke(EffectArgvs)

\* nekroctl fan set ... / nekroctl fan auto
FanCommand == Invoke(FanArgvs)

\* nekroctl battery on / off / set MODE
BatteryCommand == Invoke(BatteryArgvs)

\* nekroctl power set MODE
PowerCommand == Invoke(PowerArgvs)

CmdNext ==
    \/ PerZoneCommand
    \/ EffectCommand
    \/ FanCommand
    \/ BatteryCommand
    \/ PowerCommand

CmdSpec == CmdInit /\ [][CmdNext]_vars

----------------------------------------------------------------------------
(* Reading the attributes back into the pages, specification ReadbackSpec:  *)
(* the user activates Refresh on a page they have edited, the attribute     *)
(* holding whatever the device answers.                                     *)

\* what the device answers for per_zone_mode, four_zone_mode and
\* back_logo/color: well-formed, short, empty, and with fields that are no
\* colour or no number or out of range
PerZoneReadbacks ==
    {"ff0000,00ff00,0000ff,ffffff,40\n", "#FF0000, 00ff00 ,0000ff,ffffff,40\n",
     "ff0000,ff0000,ff0000,ff0000,x\n", "ff0000,00ff00,0000ff,ffffff,140\n",
     "ff0000,00ff00,0000ff\n", "ff0000,00ff00,0000ff,ffffff\n", "",
     "ff0000,00ff00,0000ff,fff,40\n", "GGGGGG,GGGGGG,GGGGGG,GGGGGG,40\n", "garbage\n"}

EffectReadbacks ==
    {"0,5,60,1,255,0,0\n", "3,3,80,1,0,0,0\n", "7, 9 ,100,2,0,255,204\n",
     "3,x,80,1,255,0,0\n", "3,1,80,1,zz,0,0\n", "wave,1,80,1,0,0,255\n",
     "9,12,140,3,0,255,0\n", "3,1,80,1,300,0,0\n", "3,1,80,1,0,0\n", "3,1,80\n", "",
     "garbage\n"}

LogoReadbacks ==
    {"00ffcc,100,1\n", "ff0000,40,0\n", "00ffcc,100,x\n", "00ffcc,100,\n",
     "00ffcc,100\n", "", "red,100,1\n", "GGGGGG,40,1\n", "00ffcc,abc,1\n",
     "00ffcc,140,on\n", "garbage\n"}

ReadbackPageKeys == {"per_zone", "effect", "logo", "power", "battery"}

\* the attribute behind the page of a key
AttributeOf(k) ==
    CASE k = "per_zone" -> KB_PER_ZONE
      [] k = "effect"   -> KB_FOUR_MODE
      [] k = "logo"     -> LOGO_COLOR
      [] k = "power"    -> PLATFORM_PROFILE
      [] k = "battery"  -> join_path(SENSE_PRED, "battery_limiter")

Readbacks(k) ==
    CASE k = "per_zone" -> PerZoneReadbacks
      [] k = "effect"   -> EffectReadbacks
      [] k = "logo"     -> LogoReadbacks
      [] k = "power"    -> {"balanced\n", "performance\n", "turbo\n"}
      [] k = "battery"  -> {"0\n", "1\n", "\n"}

\* the page as built, and as the user has left it
EditedPages(k) ==
    CASE k = "per_zone" ->
           {PerZoneWidgets,
            [single_row |-> FALSE, single_color |-> "00ffcc",
             z_entries |-> <<"000000", "ffffff", "00aaff", "00ffcc">>, bright_row |-> 70]}
      [] k = "effect" ->
           {EffectWidgets,
            [mode_row |-> 0, speed_row |-> 5, bright2_row |-> 60, dir_row |-> 1,
             color_row |-> "ff0000"]}
      [] k = "logo" ->
           {LogoWidgets, [logo_power |-> FALSE, logo_color |-> "ff0000", logo_brightness |-> 40]}
      [] k = "power" -> {PowerWidgets}
      [] k = "battery" -> {BatteryWidgets, [battery_row |-> TRUE, sensitive |-> TRUE]}

ReadbackInit ==
    /\ key \in ReadbackPageKeys
    /\ fs \in {[FullFs EXCEPT ![AttributeOf(key)] = t] : t \in Readbacks(key)}
    /\ widgets \in EditedPages(key)
    /\ cli = NoRun
    /\ EscNotStarted
    /\ path_exists = TRUE
    /\ timer_id = None
    /\ source = NoSource
    /\ since_change = 0
    /\ last_args = None
    /\ refreshing = FALSE
    /\ threads = <<>>
    /\ idle = <<>>
    /\ fan_speed = ""
    /\ status = NoStatus
    /\ foreground = MainLoop
    /\ burst = NoBurst
    /\ last_fire = NoFire
    /\ prev_fire = NoPrevFire
    /\ applied = None

\* the machine around a call of run_privileged: what open() raises for a
\* process of the user, and what sudo -n and pkexec do
Answers == {"missing", "refuses", "runs"}

Environments ==
    [fault : {"none", "PermissionError", "FileNotFoundError"}, sudo : Answers,
     pkexec : Answers]

\* the exit of nekroctl under sudo -n / pkexec, or of the tool refusing
AsRoot(args, files, answer, refusal) ==
    IF answer = "runs" THEN main(args, files, "none")
    ELSE Exit(refusal.code, refusal.out, refusal.err, files)

\* what a tier's process answered
Answered(exit) == Proc(exit.code, exit.stdout, exit.stderr)

\* run_privileged(args) at its return, the three tiers having answered r1,
\* r2 and r3 where they are run: the tiers executed, in order, the locals,
\* and the value returned
Returned(r1, r2, r3) ==
    LET a1 == AfterUnprivileged(r1)
        a2 == AfterSudo(r1, r2)
        a3 == AfterPkexec(r1, r2, r3)
    IN  IF a1.pc = "done"
        THEN [runs |-> <<Ran("unpriv", r1)>>, result |-> a1.result,
              perm_denied |-> FALSE, sudo_requires_password |-> FALSE]
        ELSE IF a2.pc = "done"
        THEN [runs |-> <<Ran("unpriv", r1), Ran("sudo", r2)>>, result |-> a2.result,
              perm_denied |-> TRUE, sudo_requires_password |-> FALSE]
        ELSE [runs |-> <<Ran("unpriv", r1), Ran("sudo", r2), Ran("pkexec", r3)>>,
              result |-> a3.result,
              perm_denied |-> TRUE, sudo_requires_password |-> TRUE]

\* run_privileged(args) from the call to the return, on the attribute files
run_privileged(args, files, env) ==
    CHOOSE call \in
        UNION {UNION {{Returned(r1, r2, r3) :
                          r3 \in {run_with_pkexec(env.pkexec # "missing", Answered(e3)) :
                                     e3 \in {AsRoot(args, files, env.pkexec, PkexecRefusal)}}} :
                      r2 \in {run_with_sudo(env.sudo # "missing", Answered(e2)) :
                                 e2 \in {AsRoot(args, files, env.sudo, SudoRefusal)}}} :
               r1 \in {run_nekroctl(Answered(e1)) : e1 \in {main(args, files, env.fault)}}} :
        TRUE

\* the user activates Refresh: the effect block of _refresh_keyboard() reads
\* four_zone_mode into the page
DecodeEffect ==
    /\ NoWorker
    /\ key = "effect"
    /\ widgets' = refresh_keyboard_effect(widgets, fs)
    /\ status' = info("Refreshed status")
    /\ UNCHANGED <<key, path_exists, timer_id, source, since_change, last_args,
                   refreshing, threads, idle, fan_speed, foreground>>
    /\ UNCHANGED escVars
    /\ UNCHANGED histVars
    /\ UNCHANGED cliVars

\* the user activates Refresh on the page with the back logo: _refresh_logo()
\* from the call of run_privileged(["logo", "get"]) to its end, the notify
\* handlers of the widgets it changes included
RefreshLogo ==
    /\ InMainLoop
    /\ NoWorker
    /\ key = "logo"
    /\ ~source.live
    /\ \E env \in Environments :
         \E call \in {run_privileged(<<"logo", "get">>, fs, env)} :
           LET ws == refresh_logo_widgets(widgets, call.result)
               touched == \E i \in 2..Len(ws) : ws[i] # ws[i - 1]
           IN  /\ widgets' = ws[Len(ws)]
               /\ burst' = Notified(burst, ws, prev_fire)
               /\ timer_id' = IF touched THEN touch(timer_id, source).timer_id ELSE timer_id
               /\ source' = IF touched THEN touch(timer_id, source).source ELSE source
               /\ since_change' = IF touched THEN 0 ELSE since_change
               /\ last_fire' = IF touched THEN NoFire ELSE last_fire
               /\ runs' = call.runs
               /\ result' = call.result
               /\ perm_denied' = call.perm_denied
               /\ sudo_requires_password' = call.sudo_requires_password
    /\ status' = info("Refreshed status")
    /\ UNCHANGED <<pc, key, path_exists, last_args, refreshing, threads, idle, fan_speed,
                   foreground, prev_fire, applied>>
    /\ UNCHANGED cliVars

\* the user activates Refresh on the power page: refresh() with its three
\* calls of run_privileged, on a machine that answers the three alike
RefreshPower ==
    /\ InMainLoop
    /\ NoWorker
    /\ key \in {"power", "battery"}
    /\ \E env \in Environments :
         \E list \in {run_privileged(<<"power", "list">>, fs, env)} :
         \E cur \in {run_privileged(<<"power", "get">>, fs, env)} :
         \E bat \in {run_privileged(<<"battery", "get">>, fs, env)} :
             /\ widgets' = IF key = "power"
                           THEN refresh_power_current(
                                    refresh_power_choices(widgets, list.result), cur.result)
                           ELSE refresh_battery(widgets, bat.result)
             /\ runs' = list.runs \o cur.runs \o bat.runs
             /\ result' = bat.result
             /\ perm_denied' = bat.perm_denied
             /\ sudo_requires_password' = bat.sudo_requires_password
    /\ status' = info("Refreshed status")
    /\ UNCHANGED <<pc, key, path_exists, timer_id, source, since_change, last_args,
                   refreshing, threads, idle, fan_speed, foreground>>
    /\ UNCHANGED histVars
    /\ UNCHANGED cliVars

ReadbackNext ==
    \/ DecodePerZone
    \/ DecodeEffect
    \/ RefreshLogo
    \/ RefreshPower

ReadbackSpec == ReadbackInit /\ [][ReadbackNext]_vars

----------------------------------------------------------------------------
(* Properties of run_privileged (EscSpec)                                  *)

Tiers == {runs[i].tier : i \in 1..Len(runs)}

\* the first non-empty text of a list, or dflt when all are empty
FirstNonEmpty(texts, dflt) ==
    IF \A i \in 1..Len(texts) : texts[i] = "" THEN dflt
    ELSE texts[CHOOSE i \in 1..Len(texts) :
                 texts[i] # "" /\ \A j \in 1..(i - 1) : texts[j] = ""]

\* the generic message, written out for the exit codes the processes use
GenericMessage(code) ==
    CASE code = 1   -> "Failed with code 1"
      [] code = 3   -> "Failed with code 3"
      [] code = 127 -> "Failed with code 127"

\* C1: sudo -n runs only after the unprivileged attempt failed and was
\* classified permission-related; pkexec runs only after sudo -n ran and
\* failed; a failure not classified permission-related ends the call with
\* neither privileged tier run.
EscalationOrdering ==
    /\ \A i \in 1..Len(runs) :
         runs[i].tier = "sudo" =>
            /\ i = 2
            /\ runs[1].tier = "unpriv"
            /\ runs[1].code # 0
            /\ perm_denied
    /\ \A i \in 1..Len(runs) :
         runs[i].tier = "pkexec" =>
            /\ i = 3
            /\ runs[2].tier = "sudo"
            /\ runs[2].code # 0
    /\ (Len(runs) >= 1 /\ runs[1].code # 0 /\ ~perm_denied) =>
            /\ pc = "done"
            /\ Tiers = {"unpriv"}

EscalationOrderingWitness ==
    /\ Len(runs) = 3
    /\ runs[3].tier = "pkexec"
    /\ perm_denied

\* C2, the safety part: no tier runs twice, none runs after a tier that
\* exited 0, and the call returns success exactly when the last tier it ran
\* exited 0.
StopsAtFirstSuccessInv ==
    /\ \A i, j \in 1..Len(runs) : i # j => runs[i].tier # runs[j].tier
    /\ \A i \in 1..(Len(runs) - 1) : runs[i].code # 0
    /\ pc = "done" =>
          /\ Len(runs) >= 1
          /\ result.ok <=> (runs[Len(runs)].code = 0)
    /\ pc # "done" => \A i \in 1..Len(runs) : runs[i].code # 0

\* C2: run_privileged stops at the first success and every call returns
\* (the external processes exiting).
StopsAtFirstSuccess ==
    /\ []StopsAtFirstSuccessInv
    /\ (pc = "unpriv") ~> (pc = "done")

StopsAtFirstSuccessWitness ==
    /\ pc = "done"
    /\ Len(runs) = 2
    /\ runs[2].code = 0
    /\ result.ok

\* the sample texts of the unprivileged attempt that hold, in some
\* capitalisation, one of the five permission phrases
PermissionTexts ==
    { strip(e) : e \in
        { "Permission denied writing to /sys/kb. Try running with sudo/root.\n",
          "Error: [Errno 1] Operation not permitted: '/sys/kb'\n",
          "Error: Not Authorized\n",
          "polkit: Authentication is required\n",
          "You must be root\n" } }

\* C3: a failed unprivileged attempt is classified permission-related
\* exactly when its exit status is 3 or its stderr holds, compared without
\* regard to case, one of the five phrases.
PermissionClassification ==
    (Len(runs) >= 1 /\ runs[1].code # 0) =>
        (perm_denied <=> (runs[1].code = 3 \/ runs[1].err \in PermissionTexts))

PermissionClassificationWitness ==
    /\ Len(runs) >= 1
    /\ runs[1].code = 3
    /\ runs[1].err = ""
    /\ perm_denied
    /\ "sudo" \in Tiers

\* the sample texts of sudo -n that hold one of the listed phrases exactly
\* as written (lower case)
InteractiveTextsLiteral ==
    { strip(e) : e \in
        { "sudo: a password is required\n",
          "sudo: the password is required\n",
          "sudo: no tty present and no askpass program specified\n",
          "sudo: sorry, you must have a tty to run sudo\n" } }

\* ... and those that hold one of them in some capitalisation
InteractiveTexts ==
    InteractiveTextsLiteral \cup
    { strip(e) : e \in
        { "sudo: Password authentication needed\n",
          "sudo: Unable to authenticate\n" } }

\* C4 as stated: requires-interactive-auth exactly when the exit status is
\* 127 or stderr contains one of the phrases as written.
InteractiveClassificationLiteral ==
    (Len(runs) >= 2 /\ runs[2].code # 0) =>
        (sudo_requires_password <=>
            (runs[2].code = 127 \/ runs[2].err \in InteractiveTextsLiteral))

\* C4, amended: requires-interactive-auth exactly when the exit status is
\* 127 or stderr, compared without regard to case, contains "a password is
\* required", or "password" together with "authentication" or "is
\* required", or "no tty present", "unable to authenticate", "sorry, you
\* must have a tty to run sudo".
InteractiveClassification ==
    (Len(runs) >= 2 /\ runs[2].code # 0) =>
        (sudo_requires_password <=>
            (runs[2].code = 127 \/ runs[2].err \in InteractiveTexts))

InteractiveClassificationWitness ==
    /\ Len(runs) >= 2
    /\ runs[2].code = 1
    /\ runs[2].err = "sudo: authentication failure"
    /\ ~sudo_requires_password
    /\ pc = "done"

\* C5 as stated: a sudo -n failure that is not requires-interactive-auth
\* ends the call without pkexec, with failure and the message of the
\* sudo -n attempt.
FailClosedSudoMessage ==
    (Len(runs) >= 2 /\ runs[2].code # 0 /\ ~sudo_requires_password) =>
        /\ pc = "done"
        /\ Tiers = {"unpriv", "sudo"}
        /\ ~result.ok
        /\ result.msg = FirstNonEmpty(<<runs[2].err, runs[2].out>>,
                                      GenericMessage(runs[2].code))

\* C5, amended: ... with failure and the first non-empty of sudo's stderr,
\* sudo's stdout, the unprivileged stderr, the unprivileged stdout, and
\* else "Failed with code N", N the exit status of sudo -n.
FailClosed ==
    (Len(runs) >= 2 /\ runs[2].code # 0 /\ ~sudo_requires_password) =>
        /\ pc = "done"
        /\ Tiers = {"unpriv", "sudo"}
        /\ ~result.ok
        /\ result.msg = FirstNonEmpty(<<runs[2].err, runs[2].out,
                                        runs[1].err, runs[1].out>>,
                                      GenericMessage(runs[2].code))

FailClosedWitness ==
    /\ Len(runs) = 2
    /\ runs[2].code = 1
    /\ ~sudo_requires_password
    /\ runs[2].err = ""
    /\ runs[2].out = ""
    /\ runs[1].err # ""
    /\ result.msg = runs[1].err

\* C6: an unprivileged failure that is not permission-related is returned
\* as failure with the attempt's own message, unchanged: its stderr, else
\* its stdout, else "Failed with code N".
OriginalMessageVerbatim ==
    (Len(runs) >= 1 /\ runs[1].code # 0 /\ ~perm_denied) =>
        /\ pc = "done"
        /\ ~result.ok
        /\ result.msg = FirstNonEmpty(<<runs[1].err, runs[1].out>>,
                                      GenericMessage(runs[1].code))

OriginalMessageVerbatimWitness ==
    /\ Len(runs) = 1
    /\ runs[1].code = 1
    /\ ~perm_denied
    /\ runs[1].err = "Missing fan_speed at /sys/fan. Ensure the Nekro-Sense module is loaded."
    /\ result = Outcome(FALSE, runs[1].err)

\* C7: when pkexec ran and failed, the message is the first non-empty of
\* pkexec stderr, pkexec stdout, sudo stderr, sudo stdout, unprivileged
\* stderr, unprivileged stdout, and else "Failed with code N", N the exit
\* status of pkexec.
PkexecMessageOrder ==
    (Len(runs) = 3 /\ runs[3].code # 0) =>
        /\ pc = "done"
        /\ ~result.ok
        /\ result.msg = FirstNonEmpty(<<runs[3].err, runs[3].out,
                                        runs[2].err, runs[2].out,
                                        runs[1].err, runs[1].out>>,
                                      GenericMessage(runs[3].code))

PkexecMessageOrderWitness ==
    /\ Len(runs) = 3
    /\ runs[3].code # 0
    /\ runs[3].err = ""
    /\ runs[3].out = ""
    /\ runs[2].err # ""
    /\ runs[1].err # ""
    /\ result.msg = runs[2].err

----------------------------------------------------------------------------
(* Properties of the debounced handlers (Spec)                             *)

CoalescedKeys == TickKeys \cup {"fan"}

\* a step in which the settle timer of the key decides on the dispatch
FireStep == burst.pending /\ ~burst'.pending

\* a step that starts exactly one worker thread, for args
Launches(args) == threads' = Append(threads, Thread(args, FALSE))

\* a step that starts a worker thread
LaunchStep == Len(threads') > Len(threads)

CoalescedWriteStep ==
    /\ (key \in CoalescedKeys /\ LaunchStep) => FireStep
    /\ (key \in CoalescedKeys /\ FireStep) =>
          /\ burst.quiet >= SettleMs(key)
          /\ ~source'.live
          /\ key \in TickKeys =>
                IF burst.args # <<>> /\ Sig(burst.args) # last_args
                THEN Launches(burst.args)
                ELSE threads' = threads
          /\ key = "fan" => Launches(compute_fans_args(widgets))

SerializedWrites == Len(threads) <= 1

RepeatedSubmissionResent ==
    /\ key \in TickKeys
    /\ last_fire.fired
    /\ last_fire.repeat
    /\ last_fire.quiescent
    /\ last_fire.prev_sent
    /\ last_fire.sent

\* a fan payload was sent and, the widgets having been refreshed from the
\* device, submitted and sent again
RepeatedSubmissionFan ==
    /\ key = "fan"
    /\ last_fire.fired
    /\ last_fire.repeat
    /\ last_fire.sent

\* C11: when a coalesced key's settle timer elapses with a payload equal to
\* the last payload successfully applied for that key, nothing is handed to
\* the escalator and the key is Idle again (no live timer); this for
\* per-zone, effect, logo and fan alike. The payload is the one of the last
\* intent (no refresh has changed the widgets since).
DropsUnchangedPayload ==
    (key \in CoalescedKeys /\ last_fire.fired /\ last_fire.kept /\ last_fire.atapplied)
        => (~last_fire.sent /\ ~source.live)

\* the same for the keys that keep a baseline (per-zone, effect, logo)
DropsUnchangedPayloadOfTickKeys ==
    (key \in TickKeys /\ last_fire.fired /\ last_fire.atapplied)
        => (~last_fire.sent /\ ~source.live /\ timer_id = None)

\* a tick key's timer fired with the applied payload
DropsUnchangedPayloadReached ==
    key \in TickKeys /\ last_fire.fired /\ last_fire.atapplied /\ applied # None

\* the main loop runs a queued _done
DoneStep == Len(idle') < Len(idle)

\* C12: when a dispatched write completes with success, the key's
\* last-applied baseline becomes exactly the payload that was dispatched;
\* when it completes with failure the baseline stays as it was and the
\* message is shown as an error; _done dispatches nothing, and a write is
\* dispatched only by a settle timer that an intent has armed since its last
\* firing.
CompletionStep ==
    /\ DoneStep =>
          LET d == Head(idle)
          IN  /\ threads' = threads
              /\ (key \in TickKeys /\ d.ok) => last_args' = Join(" ", d.thread.args)
              /\ ~d.ok => /\ last_args' = last_args
                          /\ status' = [text |-> d.msg, error |-> TRUE]
    /\ (key \in CoalescedKeys /\ LaunchStep) => burst.pending

ForegroundNeverWaits == foreground = MainLoop

\* the writes do run on worker threads: a handler that dispatches one
\* leaves the main thread in the main loop
WritesRunOnWorkers == [][LaunchStep => (InMainLoop /\ foreground' = MainLoop)]_vars

\* one more intent arrives for a key that is Pending
IntentWhilePending == burst.pending /\ burst'.many /\ burst'.quiet = 0 /\ burst' # burst

\* C14: for each coalesced key no write is dispatched less than the settle
\* period (400 ms) after the most recent intent for the key, and an intent
\* arriving while the key is Pending restarts the wait: the time of the last
\* change is taken anew (per-zone, effect, logo), the timeout is replaced by
\* one of 400 ms (fan).
TrailingEdgeStep ==
    /\ (key \in CoalescedKeys /\ LaunchStep) =>
          /\ burst.pending
          /\ burst.quiet >= 400
    /\ (key \in TickKeys /\ IntentWhilePending) =>
          /\ since_change' = 0
          /\ source'.live
    /\ (key = "fan" /\ IntentWhilePending) => source' = [live |-> TRUE, ms |-> 400]

TrailingEdge == [][TrailingEdgeStep]_vars

\* a fan write was dispatched for a burst of several intents
TrailingEdgeWitness ==
    /\ key = "fan"
    /\ last_fire.fired
    /\ last_fire.many
    /\ last_fire.sent
    /\ threads # <<>>

\* C15: each key has at most one pending change and one live settle timer,
\* and its timer handle is cleared exactly when the key is Idle: the handle
\* is set while a change is pending and the timer is live, and None
\* otherwise.
OneTimerPerKey ==
    /\ burst.pending <=> source.live
    /\ (timer_id = None) <=> ~source.live

\* the same for the keys whose timer is the 100 ms tick (per-zone, effect,
\* logo); for fan the handle is set whenever the timer is live
OneTimerPerTickKey ==
    /\ key \in CoalescedKeys => (burst.pending <=> source.live)
    /\ key \in TickKeys => ((timer_id = None) <=> ~source.live)
    /\ key = "fan" => (source.live => timer_id # None)

\* C18, for the writes of the front-end: a write to a missing attribute
\* path is not skipped silently: when the settle timer fires while the
\* key's attribute path does not exist, an error is reported on the status
\* label.
MissingPathReported ==
    (key \in {"per_zone", "effect"} /\ last_fire.fired /\ ~path_exists) => status.error

----------------------------------------------------------------------------
(* Properties of the command line (CliSpec)                                *)

\* the leaf a command line names
LeafOf(argv) == argv[1] \o " " \o argv[2]

\* a nekroctl process exits in this step
ExitStep == cli' # cli

\* the leaves that work on a file of the sense directory
SenseLeaves ==
    {"fan get", "fan auto", "fan set",
     "battery get", "battery on", "battery off", "battery set"}

\* the command lines that ask one of them for the feature, not for its help
SenseCommands ==
    {argv \in Argvs :
        /\ Len(argv) >= 2
        /\ LeafOf(argv) \in SenseLeaves
        /\ argv[2] = "set" => Len(argv) >= 3
        /\ \A i \in 1..Len(argv) : argv[i] \notin {"-h", "--help"}}

\* C19: the sense directory is predator_sense where it exists and nitro_sense
\* only where predator_sense does not; a fan or battery command then works
\* on the file of that directory and on no other, and the front-end's fans
\* page looks for fan_speed in the same directory; where neither directory
\* exists it exits with the message "Could not find predator_sense or
\* nitro_sense directory", which is not the message of a missing attribute,
\* and writes nothing.
SenseDetectionStep ==
    (ExitStep /\ cli'.argv \in SenseCommands) =>
        LET name   == IF cli'.argv[1] = "fan" THEN "fan_speed" ELSE "battery_limiter"
            chosen == IF SENSE_PRED \in DOMAIN fs THEN SENSE_PRED
                      ELSE IF SENSE_NITRO \in DOMAIN fs THEN SENSE_NITRO
                      ELSE None
            file   == chosen \o "/" \o name
        IN  /\ chosen = None =>
                /\ cli'.code = 2
                /\ cli'.stderr = NoSenseMessage
                /\ cli'.stdout = ""
                /\ fs' = fs
                /\ \A d \in {SENSE_PRED, SENSE_NITRO} :
                       NoSenseMessage # MissingMessage(name, d \o "/" \o name)
            /\ (chosen # None /\ file \notin DOMAIN fs) =>
                /\ cli'.code = 2
                /\ cli'.stderr = MissingMessage(name, file)
                /\ fs' = fs
            /\ (chosen # None /\ file \in DOMAIN fs) =>
                /\ \A q \in DOMAIN fs : q # file => fs'[q] = fs[q]
                /\ (cli'.code = 0 /\ cli'.argv[2] = "get") =>
                       cli'.stdout = strip(fs[file]) \o "\n"
                /\ (cli'.code = 0 /\ cli'.argv = <<"fan", "auto">>) => fs'[file] = "0,0\n"
                /\ (cli'.code = 0 /\ cli'.argv = <<"battery", "on">>) => fs'[file] = "1\n"
                /\ (cli'.code = 0 /\ cli'.argv = <<"battery", "off">>) => fs'[file] = "0\n"
            /\ cli'.argv[1] = "fan" =>
                   detect_sense_fan_path(fs) =
                       (IF chosen # None /\ file \in DOMAIN fs THEN file ELSE None)

SenseDetection == [][SenseDetectionStep]_vars

\* a fan command has run where neither directory exists
SenseDetectionWitness ==
    /\ cli.argv = <<"fan", "auto">>
    /\ SENSE_PRED \notin DOMAIN fs
    /\ SENSE_NITRO \notin DOMAIN fs
    /\ cli.code = 2
    /\ cli.stderr = NoSenseMessage

\* text begins with prefix
HasPrefix(prefix, text) ==
    Len(text) >= Len(prefix) /\ SubSeq(text, 1, Len(prefix)) = prefix

\* a nekroctl process has run
HasRun == cli.tier # "none"

\* the last command did what it was asked: it printed the attribute text,
\* its OK line or the help asked for
CommandSucceeded == cli.stdout # ""

\* it found a path it needs missing: the sense directory, the attribute file,
\* or the file at the moment of the open()
RequiredPathMissing ==
    \/ cli.stderr = NoSenseMessage
    \/ HasPrefix("Missing ", cli.stderr)
    \/ cli.fault = "FileNotFoundError"

\* an open() of it was refused for lack of permission
PermissionFailure == cli.fault = "PermissionError"

\* argparse rejected the command line: usage and error on stderr
UsageError == HasPrefix("usage: ", cli.stderr)

ValidationFails(argv, files) ==
    \/ argv \in InvalidArgvs
    \/ /\ argv = UnsupportedProfileArgv
       /\ PLATFORM_PROFILE \in DOMAIN files
       /\ PLATFORM_PROFILE_CHOICES \in DOMAIN files

\* a colour text of the keyboard page is no colour
InvalidPage(w) ==
    LET texts == IF w.single_row THEN <<w.single_color>> ELSE w.z_entries
    IN  \E i \in 1..Len(texts) : ~parsed_hex_color[texts[i]].ok

\* a command whose input fails validation exits with an error and leaves
\* every file as it was; run as the first tier of run_privileged, it ends
\* the call: neither sudo nor pkexec is tried
ValidationFailureStep ==
    (ExitStep /\ ValidationFails(cli'.argv, fs)) =>
        /\ fs' = fs
        /\ ~cli'.wrote
        /\ cli'.code # 0
        /\ (cli'.tier = "unpriv" /\ cli'.fault = "none") =>
               /\ pc' = "done"
               /\ Len(runs') = 1
               /\ ~result'.ok

\* _apply_per_zone_now() on a page with an invalid colour starts no worker,
\* leaves the escalator alone and keeps the baseline
InvalidPageStep ==
    (NoWorker /\ InvalidPage(widgets')) =>
        /\ threads' = <<>>
        /\ last_args' = last_args
        /\ UNCHANGED escVars
        /\ UNCHANGED cliVars

\* a privileged tier runs such a command only after the unprivileged run was
\* refused the read of the list of profiles, never after a validation error
PrivilegedAfterRefusalOnly ==
    (/\ ExitStep
     /\ cli'.tier \in {"sudo", "pkexec"}
     /\ ValidationFails(cli'.argv, fs)) =>
        /\ cli'.argv = UnsupportedProfileArgv
        /\ runs[1].tier = "unpriv"
        /\ runs[1].code = 3

ZoneColorsOf(argv) ==
    LET ns    == parse_tokens("rgb per-zone", SubSeq(argv, 3, Len(argv)), Namespace, <<>>).ns
        given == [i \in 1..Len(ns.colors) |-> parse_hex_color(ns.colors[i]).value]
    IN  IF Len(given) = 1 THEN <<given[1], given[1], given[1], given[1]>> ELSE given

BrightnessOf(argv) ==
    parse_tokens("rgb per-zone", SubSeq(argv, 3, Len(argv)), Namespace, <<>>).ns.brightness

\* the ZoneColors value the keyboard page stands for
PageColors(w) ==
    IF w.single_row
    THEN <<w.single_color, w.single_color, w.single_color, w.single_color>>
    ELSE w.z_entries

\* per_zone_mode holds what the last command wrote for its colours
EncodedByLastCommand ==
    /\ Len(cli.argv) >= 3
    /\ LeafOf(cli.argv) = "rgb per-zone"
    /\ cli.code = 0
    /\ cli.stdout = "OK: per-zone colors set\n"

\* the page is read from the files, the first time since the status line
\* said anything else
DecodeStep ==
    /\ NoWorker
    /\ status # info("Refreshed status")
    /\ status' = info("Refreshed status")

\* colours of the round trip and the pages the text is read into
RoundTripColors == {"000000", "ffffff", "00aaff"}
RoundTripPages == {PerZoneWidgets, [PerZoneWidgets EXCEPT !.single_row = FALSE]}

\* decode(encode(x)) = x for the four colours cs and every brightness
RoundTripOf(cs) ==
    \A b \in 0..100, w \in RoundTripPages :
        LET ns   == [Namespace EXCEPT !.colors = cs, !.brightness = b]
            exit == cmd_rgb_per_zone(ns, FullFs, "none")
            page == refresh_keyboard_per_zone(w, exit.fs)
        IN  /\ exit.code = 0
            /\ PageColors(page) = cs
            /\ page.bright_row = b

\* C20: round trip of the per-zone protocol: the text a per-zone command
\* writes for four colours of six hex digits and a brightness in 0..100,
\* read back by the keyboard page, gives the same four colours in the same
\* order and the same brightness.
PerZoneRoundTrip ==
    /\ \A cs \in [1..4 -> RoundTripColors] : RoundTripOf(cs)
    /\ [][(DecodeStep /\ EncodedByLastCommand) =>
             /\ PageColors(widgets') = ZoneColorsOf(cli.argv)
             /\ widgets'.bright_row = BrightnessOf(cli.argv)
             /\ Len(ZoneColorsOf(cli.argv)) = 4
             /\ BrightnessOf(cli.argv) \in 0..100]_vars

\* four different colours at brightness 50 have been written and read back
PerZoneRoundTripWitness ==
    /\ EncodedByLastCommand
    /\ status = info("Refreshed status")
    /\ ~widgets.single_row
    /\ widgets.z_entries = <<"00aaff", "ff0000", "00ff00", "0000ff">>
    /\ widgets.bright_row = 50

----------------------------------------------------------------------------
(* Properties of the commands (CmdSpec)                                    *)

\* the command line has option o
HasOption(argv, o) == \E i \in 1..Len(argv) : argv[i] = o

\* the command line names this leaf
IsLeaf(argv, leaf) == Len(argv) >= 2 /\ LeafOf(argv) = leaf

\* the colours on a per-zone command line: what follows the leaf, up to -b
ColorCount(argv) == Len(argv) - 2 - (IF HasOption(argv, "-b") THEN 2 ELSE 0)

\* a per-zone command exits in this step, on a machine with the keyboard,
\* its colours and brightness being valid
PerZoneCountStep ==
    /\ ExitStep
    /\ cli'.argv \in PerZoneCountArgvs
    /\ KB_PER_ZONE \in DOMAIN fs

\* C21 as stated: with a number of colours other than 1 or 4 the per-zone
\* command fails with an error and writes nothing.
PerZoneCountStrict ==
    [][(PerZoneCountStep /\ ColorCount(cli'.argv) \notin {1, 4}) =>
          (cli'.code # 0 /\ fs' = fs)]_vars

\* C21: the per-zone command writes the attribute for exactly 1 or exactly 4
\* colours; with 2, 3, 5 or more it fails with an error and writes nothing;
\* with none it prints its help, exits with 0 and writes nothing.
PerZoneCount ==
    [][PerZoneCountStep =>
          LET n == ColorCount(cli'.argv)
          IN  /\ n \in {1, 4} =>
                     /\ cli'.code = 0
                     /\ cli'.stdout = "OK: per-zone colors set\n"
                     /\ Len(Split(fs'[KB_PER_ZONE], ",")) = 5
              /\ n = 0 =>
                     /\ cli'.code = 0
                     /\ HasPrefix("usage: ", cli'.stdout)
                     /\ fs' = fs
              /\ n \notin {0, 1, 4} =>
                     /\ cli'.code # 0
                     /\ fs' = fs]_vars

\* the per-zone command has run without a colour on a machine with the
\* keyboard
PerZoneCountWitness ==
    /\ cli.argv = <<"rgb", "per-zone">>
    /\ KB_PER_ZONE \in DOMAIN fs
    /\ cli.code = 0
    /\ ~cli.wrote

\* the payload for four colours and a brightness
PerZonePayload(colors, b) ==
    colors[1] \o "," \o colors[2] \o "," \o colors[3] \o "," \o colors[4]
    \o "," \o str(b) \o "\n"

\* the four colours a per-zone command line of PerZoneEncodeArgvs stands for
ZonesOf(argv) ==
    LET z == CHOOSE z \in ZoneArgs :
                 \E b \in DOMAIN BrightnessArgs : argv = <<"rgb", "per-zone">> \o z \o b
    IN  IF Len(z) = 1
        THEN <<ColorArgs[z[1]], ColorArgs[z[1]], ColorArgs[z[1]], ColorArgs[z[1]]>>
        ELSE [i \in 1..4 |-> ColorArgs[z[i]]]

\* ... and its brightness
BrightnessGiven(argv) ==
    BrightnessArgs[CHOOSE b \in DOMAIN BrightnessArgs :
                       \E z \in ZoneArgs : argv = <<"rgb", "per-zone">> \o z \o b]

\* the keyboard page with one colour, and the command line it sends
SingleColorPage(c, b) ==
    [PerZoneWidgets EXCEPT !.single_color = c, !.bright_row = b]

\* C22: per-zone encoding: one colour c and brightness b are written as
\* "c,c,c,c,b", four colours in the order given followed by the brightness,
\* the colours in lowercase without '#', the payload ending in a newline;
\* the brightness is 100 when not given, and outside 0..100 the command
\* fails and writes nothing. The keyboard page sends its single colour four
\* times.
PerZoneEncoding ==
    /\ main(<<"rgb", "per-zone", "ff0000", "-b", "50">>, FullFs, "none").fs[KB_PER_ZONE]
           = "ff0000,ff0000,ff0000,ff0000,50\n"
    /\ \A c \in {"00aaff", "#FF0000"}, b \in {0, 50, 100} :
           LET sent == compute_per_zone_args(SingleColorPage(c, b), TRUE)
               k    == ColorArgs[c]
           IN  /\ sent = <<"rgb", "per-zone", k, k, k, k, "-b", str(b)>>
               /\ main(sent, FullFs, "none").fs[KB_PER_ZONE]
                      = PerZonePayload(<<k, k, k, k>>, b)
    /\ [][(/\ ExitStep
           /\ cli'.argv \in PerZoneEncodeArgvs
           /\ KB_PER_ZONE \in DOMAIN fs) =>
              LET b == BrightnessGiven(cli'.argv)
              IN  /\ b \in 0..100 =>
                       /\ cli'.code = 0
                       /\ fs'[KB_PER_ZONE] = PerZonePayload(ZonesOf(cli'.argv), b)
                  /\ b \notin 0..100 =>
                       /\ cli'.code # 0
                       /\ fs' = fs]_vars

\* one colour with '#' and capitals at brightness 50 has been written
PerZoneEncodingWitness ==
    /\ cli.argv = <<"rgb", "per-zone", "#FF0000", "-b", "50">>
    /\ cli.code = 0
    /\ fs[KB_PER_ZONE] = "ff0000,ff0000,ff0000,ff0000,50\n"

\* the text given as the colour of a command line of PerZoneProbeArgvs
ProbeOf(argv) == argv[3]

\* the two parsers on one text: same verdict, same colour
ParsersAgree(t) ==
    /\ cli_parse_hex_color(t).ok = parse_hex_color(t).ok
    /\ cli_parse_hex_color(t).value = parse_hex_color(t).value

\* C23: colour validation is the same on the command line and in the
\* front-end: _parse_hex_color and parse_hex_color accept a text exactly when,
\* trimmed and without one leading '#', it is six hex digits, both return it
\* in lowercase, and they agree on every text; the per-zone command writes
\* exactly the colour the front-end's parser returns and fails, writing
\* nothing, when that parser rejects.
ColorValidationAgrees ==
    /\ \A t \in DOMAIN ColorProbes \cup ColorTexts \cup DOMAIN ColorArgs : ParsersAgree(t)
    /\ \A t \in DOMAIN ColorProbes :
           /\ parse_hex_color(t).ok <=> ColorProbes[t] # ""
           /\ parse_hex_color(t).value = ColorProbes[t]
    /\ [][(/\ ExitStep /\ cli'.argv \in PerZoneProbeArgvs /\ KB_PER_ZONE \in DOMAIN fs) =>
              LET ui == parse_hex_color(ProbeOf(cli'.argv))
              IN  /\ ui.ok => /\ cli'.code = 0
                              /\ fs'[KB_PER_ZONE]
                                     = PerZonePayload(<<ui.value, ui.value, ui.value,
                                                        ui.value>>, 100)
                  /\ ~ui.ok => /\ cli'.code = 1
                               /\ HasPrefix("Error: Invalid color", cli'.stderr)
                               /\ fs' = fs]_vars

\* the command line has taken "#00aaFF" and written 00aaff
ColorValidationAgreesWitness ==
    /\ cli.argv = <<"rgb", "per-zone", "#00aaFF">>
    /\ cli.code = 0
    /\ fs[KB_PER_ZONE] = "00aaff,00aaff,00aaff,00aaff,100\n"
    /\ parse_hex_color("#00aaFF").value = "00aaff"
    /\ ~parse_hex_color("GGGGGG").ok

\* an effect command of the set exits in this step, on a machine with the
\* keyboard
EffectStep(argvs) ==
    /\ ExitStep
    /\ cli'.argv \in argvs
    /\ KB_FOUR_MODE \in DOMAIN fs

\* what the command printed, on either stream
Printed(run) == run.stdout \o run.stderr

\* the mode is resolved as stated and a mode not accepted leaves the file
\* alone
EffectModeStep ==
    LET id == ModeArgs[cli'.argv[3]]
    IN  /\ id >= 0 => /\ cli'.code = 0
                      /\ fs'[KB_FOUR_MODE] = str(id) \o ",1,100,2,0,0,0\n"
        /\ id < 0 => /\ cli'.code # 0
                     /\ fs' = fs

\* C24: effect mode resolution: a mode is accepted exactly when it is, in any
\* case, a name of the table (resolved to its id) or an integer 0..7
\* (resolved to itself); any other value is rejected as an unknown mode, the
\* error listing the valid names, and nothing is written.
EffectModeResolution ==
    [][EffectStep(EffectModeArgvs) =>
          /\ EffectModeStep
          /\ ModeArgs[cli'.argv[3]] < 0 =>
                 \A i \in 1..Len(mode_names) : Contains(mode_names[i], Printed(cli'))]_vars

\* the part of it that holds: acceptance, the id written, and no write on
\* rejection; a rejected mode exits with 1 and prints nothing
EffectModeSilent ==
    [][EffectStep(EffectModeArgvs) =>
          /\ EffectModeStep
          /\ ModeArgs[cli'.argv[3]] < 0 => (cli'.code = 1 /\ Printed(cli') = "")]_vars

\* the fields of an effect command line of EffectFieldArgvs
FieldsOf(argv) == CHOOSE f \in EffectFields : EffectArgv(f) = argv

\* the fields out of range, by the name each has in the messages of
\* cmd_rgb_effect
OutOfRange(f) ==
    (IF f.speed \in 0..9 THEN {} ELSE {"Speed"})
    \cup (IF f.brightness \in 0..100 THEN {} ELSE {"Brightness"})
    \cup (IF f.direction \in 1..2 THEN {} ELSE {"Direction"})

\* valid fields are written as "3,s,b,d,r,g,b"; with a field out of range
\* the command fails and the file is left alone
EffectFieldStep ==
    LET f   == FieldsOf(cli'.argv)
        rgb == ChannelArgs[f.color]
    IN  /\ OutOfRange(f) = {} =>
               /\ cli'.code = 0
               /\ fs'[KB_FOUR_MODE]
                      = "3," \o str(f.speed) \o "," \o str(f.brightness) \o ","
                        \o str(f.direction) \o "," \o str(rgb[1]) \o "," \o str(rgb[2])
                        \o "," \o str(rgb[3]) \o "\n"
        /\ OutOfRange(f) # {} =>
               /\ cli'.code # 0
               /\ fs' = fs

\* C25: effect encoding: valid mode m, speed s, brightness b, direction d and
\* an optional colour are written as "m,s,b,d,r,g,b", the channels in decimal
\* and 0,0,0 without a colour (wave, 3, 80, 1 gives "3,3,80,1,0,0,0"); a
\* field out of range is rejected with an error that names that field, and
\* nothing is written.
EffectEncoding ==
    /\ main(<<"rgb", "effect", "wave", "-s", "3", "-b", "80", "-d", "1">>, FullFs,
            "none").fs[KB_FOUR_MODE] = "3,3,80,1,0,0,0\n"
    /\ [][EffectStep(EffectFieldArgvs) =>
              /\ EffectFieldStep
              /\ OutOfRange(FieldsOf(cli'.argv)) # {} =>
                     \E name \in OutOfRange(FieldsOf(cli'.argv)) :
                         Contains(name, Printed(cli'))]_vars

\* the part of it that holds: the payload, and no write with a field out of
\* range; the rejection exits with 1 and prints nothing, whichever field
EffectEncodingSilent ==
    [][EffectStep(EffectFieldArgvs) =>
          /\ EffectFieldStep
          /\ OutOfRange(FieldsOf(cli'.argv)) # {} =>
                 (cli'.code = 1 /\ Printed(cli') = "")]_vars

\* fan_speed of the machine, where it has one
HasFanSpeed(files) == sense_path(files, "fan_speed").ok
FanSpeed(files) == sense_path(files, "fan_speed").path

\* the percentages a fan command line of FanLines stands for
FanValuesOf(argv) ==
    LET l == CHOOSE l \in FanLines : l[1] = argv
    IN  [cpu |-> FanArgs[l[2]], gpu |-> FanArgs[l[3]]]

\* the text is "cpu,gpu" and a newline, both decimal and in 0..100
IsFanPayload(text) ==
    LET parts == Split(text, ",")
        c     == parts[1]
        g     == SubSeq(parts[2], 1, Len(parts[2]) - 1)
    IN  /\ Len(parts) = 2
        /\ IsDigits(c) /\ Len(c) <= 3 /\ int(c) \in 0..100
        /\ IsDigits(g) /\ Len(g) <= 3 /\ int(g) \in 0..100
        /\ text = str(int(c)) \o "," \o str(int(g)) \o "\n"

\* C26: fan values: a fan value is accepted exactly when it is "auto" or "a"
\* (written as 0), the integer 0, or an integer 1..100; with any other value
\* the command is rejected and nothing is written; so every payload written
\* to fan_speed is "cpu,gpu" with both fields in 0..100.
FanValues ==
    /\ parse_percent_or_auto("0").value = 0 /\ parse_percent_or_auto("auto").value = 0
    /\ ~parse_percent_or_auto("101").ok
    /\ [][(/\ ExitStep /\ cli'.argv \in FanArgvs /\ HasFanSpeed(fs)) =>
              LET v == FanValuesOf(cli'.argv)
              IN  /\ (v.cpu >= 0 /\ v.gpu >= 0) =>
                        /\ cli'.code = 0
                        /\ fs'[FanSpeed(fs)] = str(v.cpu) \o "," \o str(v.gpu) \o "\n"
                  /\ (v.cpu < 0 \/ v.gpu < 0) =>
                        /\ cli'.code # 0
                        /\ fs' = fs]_vars
    /\ [][(HasFanSpeed(fs) /\ fs'[FanSpeed(fs)] # fs[FanSpeed(fs)]) =>
              IsFanPayload(fs'[FanSpeed(fs)])]_vars

\* "auto" for the CPU fan and 100 for the GPU fan have been written
FanValuesWitness ==
    /\ cli.argv = <<"fan", "set", "auto", "100">>
    /\ cli.code = 0
    /\ HasFanSpeed(fs)
    /\ fs[FanSpeed(fs)] = "0,100\n"

\* battery_limiter of the machine, where it has one
HasLimiter(files) == sense_path(files, "battery_limiter").ok
Limiter(files) == sense_path(files, "battery_limiter").path

\* C27: battery limiter: `battery on` writes exactly "1" and `battery off`
\* exactly "0" (each with the newline that ends a payload); `battery set
\* MODE` writes "1" for every truthy spelling, "0" for every falsy one, and
\* rejects any other value without writing; nothing but "0" or "1" is ever
\* written to the attribute.
BatteryLimiter ==
    /\ [][(/\ ExitStep /\ cli'.argv \in BatteryArgvs /\ HasLimiter(fs)) =>
              LET v == IF cli'.argv = <<"battery", "on">> THEN 1
                       ELSE IF cli'.argv = <<"battery", "off">> THEN 0
                       ELSE BatteryArgs[cli'.argv[3]]
              IN  /\ v = 1 => (cli'.code = 0 /\ fs'[Limiter(fs)] = "1\n")
                  /\ v = 0 => (cli'.code = 0 /\ fs'[Limiter(fs)] = "0\n")
                  /\ v < 0 => (cli'.code # 0 /\ fs' = fs)]_vars
    /\ [][(HasLimiter(fs) /\ fs'[Limiter(fs)] # fs[Limiter(fs)]) =>
              fs'[Limiter(fs)] \in {"0\n", "1\n"}]_vars

\* `battery set " Yes "` has switched the limiter on
BatteryLimiterWitness ==
    /\ cli.argv = <<"battery", "set", " Yes ">>
    /\ cli.code = 0
    /\ cli.wrote
    /\ HasLimiter(fs)
    /\ fs[Limiter(fs)] = "1\n"

\* the profiles the machine lists; none without the file
ChoicesOf(files) ==
    IF PLATFORM_PROFILE_CHOICES \in DOMAIN files
    THEN ChoiceLists[files[PLATFORM_PROFILE_CHOICES]]
    ELSE {}

\* C28: power profile set: with a non-empty list of choices the profile is
\* written if and only if it is in the list, and one that is not is rejected
\* with an error, nothing being written; without a list (no file, or an empty
\* one) the profile is written as given.
PowerProfileSet ==
    [][(/\ ExitStep /\ cli'.argv \in PowerArgvs /\ PLATFORM_PROFILE \in DOMAIN fs) =>
          LET mode    == cli'.argv[3]
              choices == ChoicesOf(fs)
          IN  /\ (choices = {} \/ mode \in choices) =>
                     /\ cli'.code = 0
                     /\ fs'[PLATFORM_PROFILE] = mode \o "\n"
              /\ (choices # {} /\ mode \notin choices) =>
                     /\ cli'.code # 0
                     /\ fs' = fs]_vars

\* a profile the machine does not list has been rejected, the file keeping
\* its profile
PowerProfileSetWitness ==
    /\ cli.argv = <<"power", "set", "turbo">>
    /\ fs = FullFs
    /\ cli.code = 1
    /\ ~cli.wrote

----------------------------------------------------------------------------
(* Properties of the readback (ReadbackSpec)                               *)

\* field i of a readback text, trimmed; "" where the text has no such field
Field(text, i) ==
    LET parts == Split(strip(text), ",")
    IN  IF i <= Len(parts) THEN strip(parts[i]) ELSE ""

\* the field is a decimal number within lo..hi
IsNumberIn(t, lo, hi) == IsDigits(t) /\ Len(t) <= 3 /\ int(t) \in lo..hi

\* the field is a colour: six hex digits, a leading '#' allowed
IsColor(t) == parse_hex_color(t).ok

\* the attribute as the refresh finds it
Readback == fs[AttributeOf(key)]

\* a refresh of the page of key k in this step
RefreshStep(k) == key = k /\ status' = info("Refreshed status") /\ status = NoStatus

\* the fields of per_zone_mode that cannot be decoded leave their widgets
\* as they were: the zone colours, and the brightness
PerZoneKept ==
    /\ (\E i \in 1..4 : ~IsColor(Field(Readback, i))) =>
           /\ widgets'.z_entries = widgets.z_entries
           /\ widgets'.single_color = widgets.single_color
           /\ widgets'.single_row = widgets.single_row
    /\ ~IsNumberIn(Field(Readback, 5), 0, 100) => widgets'.bright_row = widgets.bright_row

\* ... of four_zone_mode: mode, speed, brightness, direction, and the colour
\* of the three channels
EffectKept ==
    /\ ~IsNumberIn(Field(Readback, 1), 0, 7) => widgets'.mode_row = widgets.mode_row
    /\ ~IsNumberIn(Field(Readback, 2), 0, 9) => widgets'.speed_row = widgets.speed_row
    /\ ~IsNumberIn(Field(Readback, 3), 0, 100) => widgets'.bright2_row = widgets.bright2_row
    /\ ~IsNumberIn(Field(Readback, 4), 1, 2) => widgets'.dir_row = widgets.dir_row
    /\ (\E i \in 5..7 : ~IsNumberIn(Field(Readback, i), 0, 255)) =>
           widgets'.color_row = widgets.color_row

\* ... of back_logo/color: colour, brightness, and the switch
LogoKept ==
    /\ ~IsColor(Field(Readback, 1)) => widgets'.logo_color = widgets.logo_color
    /\ ~IsNumberIn(Field(Readback, 2), 0, 100) =>
           widgets'.logo_brightness = widgets.logo_brightness
    /\ Field(Readback, 3) \notin {"0", "1"} => widgets'.logo_power = widgets.logo_power

\* C29: decoding the readback is best-effort and never clobbers: whatever the
\* text of per_zone_mode, four_zone_mode or back_logo/color, malformed or
\* short of fields, the refresh does not raise and every field of the page
\* whose value could not be decoded keeps the value it had before the refresh
\* (no empty colour, no disabled logo in its place).
ReadbackNeverClobbers ==
    [][/\ RefreshStep("per_zone") => PerZoneKept
       /\ RefreshStep("effect") => EffectKept
       /\ RefreshStep("logo") => LogoKept]_vars

\* the parts of it that hold: a text short of fields changes nothing on
\* the three pages, and a number that is missing, no number or out of range
\* leaves its spinner as it was
ReadbackKeepsNumbers ==
    [][/\ RefreshStep("per_zone") =>
              /\ Field(Readback, 5) = "" => widgets' = widgets
              /\ ~IsNumberIn(Field(Readback, 5), 0, 100) =>
                     widgets'.bright_row = widgets.bright_row
       /\ RefreshStep("effect") =>
              /\ Field(Readback, 7) = "" => widgets' = widgets
              /\ ~IsNumberIn(Field(Readback, 2), 0, 9) => widgets'.speed_row = widgets.speed_row
              /\ ~IsNumberIn(Field(Readback, 3), 0, 100) =>
                     widgets'.bright2_row = widgets.bright2_row
              /\ ~IsNumberIn(Field(Readback, 4), 1, 2) => widgets'.dir_row = widgets.dir_row
              /\ ~IsNumberIn(Field(Readback, 1), 0, 7) => widgets'.mode_row = widgets.mode_row
       /\ RefreshStep("logo") =>
              /\ Len(Split(strip(Readback), ",")) < 3 => widgets' = widgets
              /\ ~IsNumberIn(Field(Readback, 2), 0, 100) =>
                     widgets'.logo_brightness = widgets.logo_brightness
              /\ Len(Field(Readback, 1)) # 6 => widgets'.logo_color = widgets.logo_color]_vars

\* C30: reads need no escalation: no read (per-zone get, effect get, logo
\* get, power get and list, fan get, battery get), from the command line or
\* from a refresh of the front-end, ever executes a privileged tier, sudo -n
\* or pkexec: every process a refresh has run is the unprivileged one.
ReadsNeverEscalate == \A i \in 1..Len(runs) : runs[i].tier = "unpriv"

\* the parts of it that hold: the keyboard blocks of the refresh run no
\* process at all, and the logo and power refresh go on to sudo -n only after
\* the unprivileged read was refused for lack of permission
ReadsEscalateOnRefusalOnly ==
    /\ key \in {"per_zone", "effect"} => runs = <<>>
    /\ \A i \in 1..Len(runs) :
           runs[i].tier = "sudo" =>
               /\ i > 1
               /\ runs[i - 1].tier = "unpriv"
               /\ runs[i - 1].code # 0
               /\ classify_perm_denied(runs[i - 1].code, runs[i - 1].err)


----------------------------------------------------------------------------
(* Errors of the commands as the caller sees them (CmdSpec)                *)

\* the message of the exception a leaf command raises on input it rejects
\* on this machine, by the tables of the command lines: the text handed to
\* SystemExit or to ValueError; "" where the command line is accepted (or
\* fails before it validates)
RejectionOf(argv, files) ==
    CASE argv \in PerZoneProbeArgvs /\ KB_PER_ZONE \in DOMAIN files
             /\ ColorProbes[ProbeOf(argv)] = "" ->
                 "Invalid color"
      [] argv \in PerZoneCountArgvs /\ KB_PER_ZONE \in DOMAIN files
             /\ ColorCount(argv) \notin {0, 1, 4} ->
                 "Provide exactly 1 or 4 colors (RRGGBB)."
      [] argv \in PerZoneEncodeArgvs /\ KB_PER_ZONE \in DOMAIN files
             /\ BrightnessGiven(argv) \notin 0..100 ->
                 "Brightness must be 0-100"
      [] argv \in EffectModeArgvs /\ KB_FOUR_MODE \in DOMAIN files
             /\ ModeArgs[argv[3]] < 0 ->
                 "Mode"
      [] argv \in EffectFieldArgvs /\ KB_FOUR_MODE \in DOMAIN files
             /\ OutOfRange(FieldsOf(argv)) # {} ->
                 "must be"
      [] argv \in FanArgvs /\ HasFanSpeed(files)
             /\ (FanValuesOf(argv).cpu < 0 \/ FanValuesOf(argv).gpu < 0) ->
                 "ercentage"
      [] argv \in BatterySetArgvs /\ HasLimiter(files) /\ BatteryArgs[argv[3]] < 0 ->
                 "Expected on/off (or 1/0, true/false, yes/no)"
      [] argv \in PowerArgvs /\ PLATFORM_PROFILE \in DOMAIN files
             /\ ChoicesOf(files) # {} /\ argv[3] \notin ChoicesOf(files) ->
                 "Unsupported profile"
      [] OTHER -> ""

\* a command exits in this step whose input its leaf rejects
RejectionStep == ExitStep /\ RejectionOf(cli'.argv, fs) # ""

\* the rejections a leaf raises as ValueError: a text that is no colour, a
\* fan value that is no percentage
RaisedAsValueError(argv) == argv \in PerZoneProbeArgvs \cup FanArgvs

\* C31: every validation error of a leaf command is reported to the caller:
\* the command exits with a code other than 0 and has written to stderr a
\* message, not empty, that describes the input it rejected.
ValidationErrorReported ==
    [][RejectionStep =>
          /\ cli'.code # 0
          /\ cli'.stderr # ""
          /\ Contains(RejectionOf(cli'.argv, fs), cli'.stderr)]_vars

\* the part of it that holds: a rejected input exits with 1 and writes no
\* file; stderr has the message of a ValueError ("Error: ...") and nothing
\* at all for a rejection raised as SystemExit(message)
ValidationErrorExits ==
    [][RejectionStep =>
          /\ cli'.code = 1
          /\ fs' = fs
          /\ cli'.stdout = ""
          /\ IF RaisedAsValueError(cli'.argv)
             THEN /\ HasPrefix("Error: ", cli'.stderr)
                  /\ Contains(RejectionOf(cli'.argv, fs), cli'.stderr)
             ELSE cli'.stderr = ""]_vars

\* three colours have been given to the per-zone command on a machine with
\* the keyboard: exit code 1 and not a word
ValidationErrorSilent ==
    /\ cli.argv = <<"rgb", "per-zone", "ff0000", "00ff00", "0000ff">>
    /\ KB_PER_ZONE \in DOMAIN fs
    /\ cli.code = 1
    /\ Printed(cli) = ""


----------------------------------------------------------------------------
(* The command line and the escalator together (CliSpec)                   *)

\* the command lines that write an attribute without reading another first
WriteArgvs ==
    {argv \in ValidArgvs :
        LeafOf(argv) \in {"rgb per-zone", "rgb effect", "logo set", "fan auto", "fan set",
                          "battery on", "battery off", "battery set"}}

\* the unprivileged run of run_privileged exits in this step
UnprivilegedStep == ExitStep /\ cli'.tier = "unpriv"

\* run_privileged returns after this one run, with a failure
ReturnsFailure ==
    /\ pc' = "done"
    /\ Len(runs') = 1
    /\ ~result'.ok
    /\ ~perm_denied'

\* an open() refused for lack of permission: exit code 3, for a write with
\* the "Permission denied" line of _write_text on stderr; the escalator takes
\* it for a permission failure and goes on to `sudo -n`
PermissionErrorStep ==
    (UnprivilegedStep /\ cli'.fault = "PermissionError") =>
        /\ cli'.code = 3
        /\ cli'.argv \in WriteArgvs =>
               HasPrefix("Permission denied writing to ", cli'.stderr)
        /\ perm_denied'
        /\ pc' = "sudo"
        /\ result' = NoResult

\* a missing path (exit code 2) and input that fails validation (exit code
\* 1) end the call
NotPermissionStep ==
    /\ (UnprivilegedStep /\ cli'.code = 2) => ReturnsFailure
    /\ (UnprivilegedStep /\ cli'.code = 1) => ReturnsFailure
    /\ (UnprivilegedStep /\ ValidationFails(cli'.argv, fs) /\ cli'.fault = "none") =>
           (cli'.code \in {1, 2} /\ ReturnsFailure)

\* a second tier is run by `sudo -n`, and only after an unprivileged run
\* that exited with 3
SudoStep ==
    (Len(runs) = 1 /\ Len(runs') = 2) =>
        /\ runs'[2].tier = "sudo"
        /\ runs[1].tier = "unpriv"
        /\ runs[1].code = 3

\* C32: the command line and the escalator agree: an unprivileged run whose
\* write is refused with PermissionError exits with 3 and a "Permission
\* denied" line on stderr, the escalator classifies it as permission-related
\* and runs `sudo -n` next; a run that fails on a missing path (2) or on
\* input that fails validation (1) is followed by no privileged tier.
ProtocolAgreement ==
    [][PermissionErrorStep /\ NotPermissionStep /\ SudoStep]_vars

\* the write of `fan set 50` was refused, and `sudo -n` has been run after
\* it
ProtocolAgreementWitness ==
    /\ cli.argv = <<"fan", "set", "50">>
    /\ cli.fault = "PermissionError"
    /\ cli.code = 3
    /\ perm_denied
    /\ Len(runs) = 2
    /\ runs[2].tier = "sudo"

\* `rgb per-zone #FF0000` on a machine without the keyboard: exit code 2,
\* run_privileged has returned after the one run
ProtocolAgreementMissing ==
    /\ cli.argv = <<"rgb", "per-zone", "#FF0000">>
    /\ cli.tier = "unpriv"
    /\ cli.code = 2
    /\ pc = "done"
    /\ Len(runs) = 1


----------------------------------------------------------------------------
(* The RGB page with its three sections (per-zone, effect, off),            *)
(* specification RgbSpec. The variables of the front-end hold, where the    *)
(* page keeps one value per section, a function of the section: timer_id,   *)
(* source, since_change, last_args and burst; key is "rgb"; fs holds the    *)
(* attribute files the worker threads write. The page is followed from the  *)
(* moment it is built; reading the attributes back into it is followed in   *)
(* ReadbackSpec.                                                            *)

\* model bound: writes of the page started and not yet reported
MaxWrites == 1

\* room for one more (the bound of the model)
CanWrite == Len(threads) + Len(idle) < MaxWrites

\* the three Adw.ExpanderRow of the page
Rows == {"per_row", "eff_row", "off_row"}

\* the sections that apply through a settle timer
TimedSections == {"per_zone", "effect"}

\* the row of a section
RowOf(s) == IF s = "per_zone" THEN "per_row" ELSE IF s = "effect" THEN "eff_row" ELSE "off_row"

\* the page as _build_rgb_page creates its widgets: enable_expansion of the
\* three rows, the widgets of the per-zone and of the effect section
RgbWidgets ==
    [per_row |-> TRUE, eff_row |-> FALSE, off_row |-> FALSE,
     per_zone |-> PerZoneWidgets, effect |-> EffectWidgets]

\* on_toggle of make_exclusive_controller leaving the other rows as they are
on_toggle_leaving_others(w, changed_row) == w

\* on_toggle(changed_row) of make_exclusive_controller, the row's switch
\* having changed: an enabled row disables the other two (whose own on_toggle
\* and lambda then find them disabled)
on_toggle(w, changed_row) ==
    IF w[changed_row]
    THEN [r \in DOMAIN w |-> IF r \in Rows \ {changed_row} THEN FALSE ELSE w[r]]
    ELSE w

\* args of apply_off()
OffArgs == <<"rgb", "per-zone", "ffffff", "ffffff", "ffffff", "ffffff", "-b", "0">>

\* a thread of run_privileged_async(args, _done) started by a section
RgbThread(args, s) == [args |-> args, sig |-> Sig(args), val |-> FALSE, section |-> s]

\* the intents of a section since its timer last fired: whether there is
\* one, and whether one of them was the enabling of the section
NoIntent == [pending |-> FALSE, enabled |-> FALSE]

\* _per_zone_touch() / _effect_touch() for the sections of S, the others as
\* they are
TouchSections(S) ==
    /\ timer_id' = [s \in TimedSections |->
                       IF s \in S THEN touch(timer_id[s], source[s]).timer_id
                       ELSE timer_id[s]]
    /\ source' = [s \in TimedSections |->
                     IF s \in S THEN touch(timer_id[s], source[s]).source ELSE source[s]]
    /\ since_change' = [s \in TimedSections |-> IF s \in S THEN 0 ELSE since_change[s]]

\* the window as do_activate leaves it on a machine with the keyboard: the
\* page is built, _refresh_keyboard() has read both attributes into the
\* widgets and, the per-zone section being enabled, called _per_zone_touch()
RgbInit ==
    /\ EscNotStarted
    /\ fs = FullFs
    /\ cli = NoRun
    /\ key = "rgb"
    /\ path_exists = TRUE
    /\ widgets = [RgbWidgets EXCEPT
                     !.per_zone = refresh_keyboard_per_zone(PerZoneWidgets, fs),
                     !.effect = refresh_keyboard_effect(EffectWidgets, fs)]
    /\ timer_id = [s \in TimedSections |-> IF s = "per_zone" THEN SourceId ELSE None]
    /\ source = [s \in TimedSections |-> IF s = "per_zone" THEN Armed(TICK_MS) ELSE NoSource]
    /\ since_change = [s \in TimedSections |-> 0]
    /\ last_args = [s \in TimedSections |-> None]
    /\ refreshing = FALSE
    /\ threads = <<>>
    /\ idle = <<>>
    /\ fan_speed = ""
    /\ status = NoStatus
    /\ foreground = MainLoop
    /\ burst = [s \in TimedSections |->
                   IF s = "per_zone" THEN [pending |-> TRUE, enabled |-> TRUE] ELSE NoIntent]
    /\ last_fire = NoFire
    /\ prev_fire = NoPrevFire
    /\ applied = None

\* what RgbSpec leaves alone
rgbFixed == <<key, path_exists, refreshing, fan_speed, foreground, last_fire, prev_fire, applied>>

\* the user flips the enable switch of a row: notify::enable-expansion runs
\* on_toggle and then the row's lambda, which for a row now enabled calls
\* _per_zone_touch(), _effect_touch() or apply_off()
ToggleSection ==
    /\ \E r \in Rows :
         \E w \in {on_toggle([widgets EXCEPT ![r] = ~@], r)} :
             /\ widgets' = w
             /\ IF w[r] /\ r = "off_row"
                THEN /\ CanWrite
                     /\ threads' = Append(threads, RgbThread(OffArgs, "off"))
                     /\ UNCHANGED <<timer_id, source, since_change, burst>>
                ELSE IF w[r]
                THEN \E s \in {IF r = "per_row" THEN "per_zone" ELSE "effect"} :
                         /\ TouchSections({s})
                         /\ burst' = [burst EXCEPT ![s] = [pending |-> TRUE, enabled |-> TRUE]]
                         /\ UNCHANGED threads
                ELSE UNCHANGED <<timer_id, source, since_change, burst, threads>>
    /\ UNCHANGED <<last_args, idle, status>>
    /\ UNCHANGED rgbFixed
    /\ UNCHANGED escVars
    /\ UNCHANGED cliVars

\* the colours the user types into the single-colour entry of the page
SectionColorTexts == {"00aaff", "#FF0000"}

\* what the user changes in the section that is enabled (the rows of a
\* disabled section are folded away): the single colour of the per-zone
\* section
SectionEdits(w) ==
    IF w.per_row
    THEN {[w EXCEPT !.per_zone.single_color = c] : c \in SectionColorTexts}
    ELSE {}

\* a widget of the enabled section changes: notify -> *_touch()
EditSection ==
    /\ \E w \in SectionEdits(widgets) :
         /\ w # widgets
         /\ widgets' = w
         /\ \E s \in {IF w.per_zone # widgets.per_zone THEN "per_zone" ELSE "effect"} :
              /\ TouchSections({s})
              /\ burst' = [burst EXCEPT ![s].pending = TRUE]
    /\ UNCHANGED <<last_args, threads, idle, status>>
    /\ UNCHANGED rgbFixed
    /\ UNCHANGED escVars
    /\ UNCHANGED cliVars

\* 100 ms pass
RgbAdvance ==
    /\ \E s \in TimedSections :
         source[s].live /\ (source[s].ms > 0 \/ since_change[s] < DelayUs(s))
    /\ source' = [s \in TimedSections |->
                     IF source[s].live
                     THEN [source[s] EXCEPT !.ms = IF @ > TICK_MS THEN @ - TICK_MS ELSE 0]
                     ELSE source[s]]
    /\ since_change' = [s \in TimedSections |->
                           IF source[s].live
                           THEN Min(since_change[s] + TICK_MS * 1000, DelayUs(s))
                           ELSE since_change[s]]
    /\ UNCHANGED <<widgets, timer_id, last_args, threads, idle, status, burst>>
    /\ UNCHANGED rgbFixed
    /\ UNCHANGED escVars
    /\ UNCHANGED cliVars

\* _tick of _per_zone_touch / _effect_touch: _apply_*_now() once the delay
\* has passed since the last change, else another 100 ms
RgbTick ==
    /\ \E s \in TimedSections :
         /\ source[s].live
         /\ source[s].ms = 0
         /\ IF Settled(s, since_change[s])
            THEN \E sent \in {apply_now(s, widgets[s], path_exists, last_args[s])} :
                     /\ sent # <<>> => CanWrite
                     /\ threads' = IF sent # <<>> THEN Append(threads, RgbThread(sent, s))
                                   ELSE threads
                     /\ timer_id' = [timer_id EXCEPT ![s] = None]
                     /\ source' = [source EXCEPT ![s] = NoSource]
                     /\ burst' = [burst EXCEPT ![s] = NoIntent]
                     /\ since_change' = [since_change EXCEPT ![s] = 0]
            ELSE /\ source' = [source EXCEPT ![s] = Armed(TICK_MS)]
                 /\ UNCHANGED <<threads, timer_id, burst, since_change>>
    /\ UNCHANGED <<widgets, last_args, idle, status>>
    /\ UNCHANGED rgbFixed
    /\ UNCHANGED escVars
    /\ UNCHANGED cliVars

\* _worker of run_privileged_async: run_privileged(args) returns, having
\* written the attribute when it succeeded, and the callback is queued with
\* GLib.idle_add; the threads end in any order
RgbWorkerExit ==
    /\ \E i \in 1..Len(threads), r \in Results :
         /\ threads' = Without(threads, i)
         /\ idle' = Append(idle, [thread |-> threads[i], ok |-> r.ok, msg |-> r.msg])
         /\ \E exit \in {IF r.ok THEN main(threads[i].args, fs, "none")
                         ELSE Exit(1, "", "", fs)} :
              /\ r.ok => exit.code = 0
              /\ fs' = exit.fs
    /\ UNCHANGED cli
    /\ UNCHANGED <<widgets, timer_id, source, since_change, last_args, status, burst>>
    /\ UNCHANGED rgbFixed
    /\ UNCHANGED escVars

\* the text _done(True, msg) of a section hands to notifier.info
RgbDoneText(s) ==
    IF s = "off" THEN "Keyboard backlight turned off" ELSE DoneText(s, <<>>)

\* the main loop runs the oldest queued _done(ok, msg): the section's
\* baseline on success (apply_off keeps none), the status line
RgbDone ==
    /\ idle # <<>>
    /\ \E d \in {Head(idle)} :
         /\ last_args' = IF d.thread.section \in TimedSections
                          THEN [last_args EXCEPT ![d.thread.section] =
                                   done_baseline(d.ok, d.thread.sig, @)]
                          ELSE last_args
         /\ status' = IF d.ok THEN info(RgbDoneText(d.thread.section)) ELSE error(d.msg)
    /\ idle' = Tail(idle)
    /\ UNCHANGED <<widgets, timer_id, source, since_change, threads, burst>>
    /\ UNCHANGED rgbFixed
    /\ UNCHANGED escVars
    /\ UNCHANGED cliVars

RgbNext ==
    \/ ToggleSection
    \/ EditSection
    \/ RgbAdvance
    \/ RgbTick
    \/ RgbWorkerExit
    \/ RgbDone

RgbSpec == RgbInit /\ [][RgbNext]_vars


----------------------------------------------------------------------------
(* Properties of the sections of the RGB page (RgbSpec)                    *)

\* the settle timer of the section fires for the last time in this step:
\* _apply_*_now() runs and the timer handle is cleared
SettleStep(s) == timer_id[s] # None /\ timer_id'[s] = None

\* the content of per_zone_mode a per-zone command line writes
PayloadOf(args) ==
    args[3] \o "," \o args[4] \o "," \o args[5] \o "," \o args[6] \o "," \o args[8] \o "\n"

\* _apply_per_zone_now() returns without a call in this step, its payload
\* being the baseline last_per_zone_args
PerZoneDropped ==
    /\ SettleStep("per_zone")
    /\ compute_per_zone_args(widgets.per_zone, path_exists) # <<>>
    /\ Sig(compute_per_zone_args(widgets.per_zone, path_exists)) = last_args["per_zone"]
    /\ threads' = threads

\* C33: duplicate suppression is sound with respect to the device: whenever
\* a per-zone payload is dropped as equal to the last-applied baseline,
\* per_zone_mode holds that payload, i.e. the last write to it that succeeded
\* carried it, also after a write of the Off section.
SuppressionSound ==
    [][PerZoneDropped =>
          fs[KB_PER_ZONE] = PayloadOf(compute_per_zone_args(widgets.per_zone, path_exists))]_vars

\* the part of it that holds: with no write in flight and no _done queued,
\* the attribute holds the dropped payload unless the Off section has
\* written since
SuppressionSoundButForOff ==
    [][(PerZoneDropped /\ NoWorker) =>
          fs[KB_PER_ZONE] \in {PayloadOf(compute_per_zone_args(widgets.per_zone, path_exists)),
                               PayloadOf(OffArgs)}]_vars

\* the per-zone section is enabled with valid colours, nothing is pending,
\* in flight or queued, and per_zone_mode holds the payload of the Off
\* section: the keyboard stays dark
DarkUnderPerZone ==
    /\ widgets.per_row
    /\ \A s \in TimedSections : timer_id[s] = None
    /\ NoWorker
    /\ compute_per_zone_args(widgets.per_zone, path_exists) # <<>>
    /\ Sig(compute_per_zone_args(widgets.per_zone, path_exists)) = last_args["per_zone"]
    /\ fs[KB_PER_ZONE] = PayloadOf(OffArgs)

\* the write of a section is started in this step
Dispatched(args, s) == threads' = Append(threads, RgbThread(args, s))

\* a section enabled since its timer last fired, still enabled and with
\* valid inputs when the timer settles
EnabledAndSettled(s) ==
    /\ SettleStep(s)
    /\ burst[s].enabled
    /\ widgets[RowOf(s)]
    /\ compute_args(s, widgets[s], path_exists) # <<>>

\* the switch of the Off section goes on in this step
OffEnabled == ~widgets.off_row /\ widgets'.off_row

\* C34: enabling a keyboard section applies it: when the per-zone or the
\* effect section has been enabled, its inputs are valid and the settle
\* period has passed without a further change, a write carrying the
\* section's settings is dispatched; enabling the Off section dispatches the
\* brightness-0 write at once; whatever switches and applies came before.
EnablingApplies ==
    [][/\ \A s \in TimedSections :
              EnabledAndSettled(s) =>
                  Dispatched(compute_args(s, widgets[s], path_exists), s)
       /\ OffEnabled => Dispatched(OffArgs, "off")]_vars

\* the part of it that holds: the write is dispatched unless the payload
\* equals the section's own baseline, whatever the other sections have
\* written since; Off is dispatched at once
EnablingAppliesUnlessBaseline ==
    [][/\ \A s \in TimedSections :
              EnabledAndSettled(s) =>
                  IF Sig(compute_args(s, widgets[s], path_exists)) = last_args[s]
                  THEN threads' = threads
                  ELSE Dispatched(compute_args(s, widgets[s], path_exists), s)
       /\ OffEnabled => Dispatched(OffArgs, "off")]_vars

\* the rows whose enable switch is on
EnabledRows == {r \in Rows : widgets[r]}

\* C39: the keyboard sections are mutually exclusive: in every reachable
\* state of the RGB page at most one of the three sections (per-zone,
\* effect, off) is enabled, whatever the user toggles.
SectionsExclusive == Cardinality(EnabledRows) <= 1

\* the Off section is the one enabled, after the effect section was enabled
\* and applied
SectionsExclusiveWitness ==
    /\ EnabledRows = {"off_row"}
    /\ last_args["effect"] # None
    /\ last_args["per_zone"] # None


----------------------------------------------------------------------------
(* Properties of the fans page (Spec)                                      *)

\* the settle timer of the fans page decides on the dispatch
FanSettleStep == key = "fan" /\ FireStep

\* C35 as stated: the write dispatched when the settle timer of the fans
\* page fires carries the payload of the user's last change, also when the
\* completion handler of an earlier fan write, which refreshes the fan
\* widgets from the device, ran between that change and the timer.
FanLastValueWins ==
    [][(FanSettleStep /\ burst.completed /\ ~burst.refreshed) => Launches(burst.args)]_vars

\* What the timer dispatches instead: the payload of the fan widgets as
\* they are when it fires.
FanWidgetsWin == [][FanSettleStep => Launches(compute_fans_args(widgets))]_vars

\* The user's last change does win when the widgets were not set from the
\* device between that change and the timer.
FanLastValueWinsUnlessRefreshed ==
    [][(FanSettleStep /\ ~burst.completed /\ ~burst.refreshed) => Launches(burst.args)]_vars

\* a fan write went out after the settle period without the payload of the
\* user's last change: the widgets had been set back from the device
FanIntentLost ==
    /\ key = "fan"
    /\ last_fire.fired
    /\ last_fire.sent
    /\ ~last_fire.carried
    /\ ~last_fire.kept


\* _done of a successful fan write runs: refresh()
FanDoneStep == key = "fan" /\ idle # <<>> /\ idle' = Tail(idle) /\ Head(idle).ok

\* the settle timer of the fans page is armed, or armed anew
FanArmStep ==
    /\ key = "fan"
    /\ source'.live
    /\ ~source.live \/ source'.ms > source.ms \/ timer_id' # timer_id

\* the user has changed a fan widget: no refresh and no completion handler
FanUserStep ==
    /\ widgets' # widgets
    /\ idle' = idle
    /\ burst'.pending
    /\ burst'.args = compute_fans_args(widgets')
    /\ ~burst'.completed
    /\ ~burst'.refreshed

\* C36: a refresh of the fans page, whatever widgets it sets, arms or
\* re-arms no timer and starts no write, and fans_refreshing is False
\* when it has returned, as it is when the page has been built: the timer
\* is armed by a change of the user only and is pending only for such a
\* change, and the refresh in the completion handler of a fan write leaves
\* timer and threads as they are. A fan write is started by the timer
\* only, for at least one change made by the user since the timer fired
\* last, so that there are no more writes than user changes.
NoFanFeedback ==
    /\ key = "fan" => ~refreshing
    /\ key = "fan" => (source.live => burst.pending)
    /\ [][FanDoneStep => /\ timer_id' = timer_id
                         /\ source' = source
                         /\ threads' = threads
                         /\ burst'.pending = burst.pending]_vars
    /\ [][FanArmStep => FanUserStep]_vars
    /\ [][(key = "fan" /\ LaunchStep) =>
              /\ burst.pending
              /\ ~burst'.pending
              /\ Len(threads') = Len(threads) + 1]_vars

\* the completion handler of a fan write has set the fan widgets to other
\* values while a change of the user was waiting for its timer, and the
\* timer is still the one the user's change armed
NoFanFeedbackWitness ==
    /\ key = "fan"
    /\ burst.pending
    /\ burst.completed
    /\ compute_fans_args(widgets) # burst.args
    /\ source.live
    /\ source.ms < FANS_DELAY_MS
    /\ threads = <<>>
    /\ idle = <<>>


----------------------------------------------------------------------------
(* Properties of the power page (Spec)                                     *)

PowerKeys == {"power", "battery"}

\* refresh() of the power page goes on from a run_privileged to the next
\* or to its end, setting the widgets it has read
PowerRefreshStep == key \in PowerKeys /\ ~InMainLoop /\ foreground' # foreground

\* _done of a failed battery write runs: the switch is set back
BatteryRevertStep ==
    key = "battery" /\ idle # <<>> /\ idle' = Tail(idle) /\ ~Head(idle).ok

\* the user selects a profile or flips the battery switch
UserPowerStep ==
    /\ key \in PowerKeys
    /\ InMainLoop
    /\ idle' = idle
    /\ widgets' # widgets

\* C37: no step of a refresh of the power page and no revert of the battery
\* switch after a failed write starts a thread, whatever it does to the
\* selector and the switch; power_refreshing is False whenever the main
\* loop is between two handlers; and every change the user makes then is
\* handed to run_privileged_async: `power set` with the selected profile,
\* `battery on` or `battery off` for the new position of the switch.
PowerGuard ==
    /\ (key \in PowerKeys /\ InMainLoop) => ~refreshing
    /\ [][(PowerRefreshStep \/ BatteryRevertStep) => threads' = threads]_vars
    /\ [][UserPowerStep =>
              IF key = "power"
              THEN Launches(<<"power", "set", widgets'.choices[widgets'.combo + 1]>>)
              ELSE threads' = Append(threads,
                       Thread(<<"battery", IF widgets'.battery_row THEN "on" ELSE "off">>,
                              widgets'.battery_row))]_vars

\* a battery write failed and the switch is back where it was, nothing
\* ever was applied and nothing is in flight
PowerGuardWitness ==
    /\ key = "battery"
    /\ InMainLoop
    /\ status.error
    /\ applied = None
    /\ ~widgets.battery_row
    /\ threads = <<>>
    /\ idle = <<>>

\* a refresh has changed the selection of the profile selector and nothing
\* is in flight
PowerGuardRefreshed ==
    /\ key = "power"
    /\ InMainLoop
    /\ status = info("Refreshed status")
    /\ widgets.choices = <<"balanced", "performance">>
    /\ widgets.combo = 1
    /\ applied = None
    /\ threads = <<>>
    /\ idle = <<>>


----------------------------------------------------------------------------
(* run_privileged_async as a process of its own: specifications AsyncSpec  *)
(* and AsyncFairSpec. The calls are numbered in the order the handlers     *)
(* make them; pc, result and applied are functions of the call: its        *)
(* position, what its run_privileged returned, and what its on_done was    *)
(* called with, how often and from where; threads and idle hold the calls  *)
(* by number.                                                              *)

\* model bound: the calls of run_privileged_async
MaxCalls == 3

Calls == 1..MaxCalls

\* the positions of a call
NotCalled == "not called"
InWorker == "run_privileged"
Queued == "idle_add"
CalledBack == "on_done returned"

\* the args of some of the callers
AsyncArgs == {<<"fan", "auto">>, <<"battery", "on">>}

\* on_done has not been called
NoCallback == [calls |-> 0, ok |-> FALSE, msg |-> "", on |-> None]

\* _worker ending without GLib.idle_add
idle_add_dropped(queue, call) == queue

\* GLib.idle_add(on_done, ok, msg): one more idle source of the main loop
idle_add(queue, call) == Append(queue, call)

AsyncInit ==
    /\ CliNotStarted
    /\ runs = <<>>
    /\ perm_denied = FALSE
    /\ sudo_requires_password = FALSE
    /\ pc = [c \in Calls |-> NotCalled]
    /\ result = [c \in Calls |-> NoResult]
    /\ applied = [c \in Calls |-> NoCallback]
    /\ threads = <<>>
    /\ idle = <<>>
    /\ foreground = MainLoop
    /\ key = None
    /\ path_exists = FALSE
    /\ widgets = <<>>
    /\ timer_id = None
    /\ source = NoSource
    /\ since_change = 0
    /\ last_args = None
    /\ refreshing = FALSE
    /\ fan_speed = ""
    /\ status = NoStatus
    /\ burst = NoBurst
    /\ last_fire = NoFire
    /\ prev_fire = NoPrevFire

asyncFixed == <<runs, perm_denied, sudo_requires_password, key, path_exists, widgets,
                timer_id, source, since_change, last_args, refreshing, fan_speed,
                status, burst, last_fire, prev_fire, fs, cli>>

\* a handler on the main thread calls run_privileged_async(args, _done):
\* a daemon thread is started and the handler returns
AsyncCall ==
    /\ InMainLoop
    /\ \E c \in Calls, args \in AsyncArgs :
         /\ pc[c] = NotCalled
         /\ \A d \in 1..(c - 1) : pc[d] # NotCalled
         /\ threads' = Append(threads, [id |-> c, args |-> args])
         /\ pc' = [pc EXCEPT ![c] = InWorker]
    /\ UNCHANGED <<idle, result, applied, foreground>>
    /\ UNCHANGED asyncFixed

\* the main thread enters a run_privileged of its own (a refresh) and waits
\* there for the process to exit
AsyncRefresh ==
    /\ InMainLoop
    /\ foreground' = "power list"
    /\ UNCHANGED <<pc, threads, idle, result, applied>>
    /\ UNCHANGED asyncFixed

\* that process exits, and the handler returns to the main loop
AsyncRefreshReturns ==
    /\ ~InMainLoop
    /\ foreground' = MainLoop
    /\ UNCHANGED <<pc, threads, idle, result, applied>>
    /\ UNCHANGED asyncFixed

\* _worker of call c: the processes of run_privileged have exited, it
\* returns (ok, msg), and on_done is queued with them
AsyncWorkerReturns(c) ==
    /\ \E i \in 1..Len(threads), r \in Results :
         /\ threads[i].id = c
         /\ threads' = Without(threads, i)
         /\ result' = [result EXCEPT ![c] = r]
         /\ idle' = idle_add(idle, [id |-> c, ok |-> r.ok, msg |-> r.msg])
    /\ pc' = [pc EXCEPT ![c] = Queued]
    /\ UNCHANGED <<applied, foreground>>
    /\ UNCHANGED asyncFixed

\* the main loop, between two handlers, runs the oldest idle source:
\* on_done(ok, msg); it returns None, so the source is removed
AsyncIdleDispatch ==
    /\ InMainLoop
    /\ idle # <<>>
    /\ \E d \in {Head(idle)} :
         /\ applied' = [applied EXCEPT ![d.id] =
                           [calls |-> Min(@.calls + 1, 2), ok |-> d.ok, msg |-> d.msg,
                            on |-> foreground]]
         /\ pc' = [pc EXCEPT ![d.id] = CalledBack]
    /\ idle' = Tail(idle)
    /\ UNCHANGED <<threads, result, foreground>>
    /\ UNCHANGED asyncFixed

AsyncNext ==
    \/ AsyncCall
    \/ AsyncRefresh
    \/ AsyncRefreshReturns
    \/ \E c \in Calls : AsyncWorkerReturns(c)
    \/ AsyncIdleDispatch

AsyncSpec == AsyncInit /\ [][AsyncNext]_vars

\* the external processes exit, and the main loop comes to its idle
\* sources between the handlers of the user's events
AsyncFairSpec ==
    /\ AsyncSpec
    /\ \A c \in Calls : WF_vars(AsyncWorkerReturns(c))
    /\ WF_vars(AsyncRefreshReturns)
    /\ SF_vars(AsyncIdleDispatch)

----------------------------------------------------------------------------
(* Properties of run_privileged_async (AsyncFairSpec)                      *)

\* the calls in flight: in a worker thread or queued for the main loop
InFlight == {threads[i].id : i \in 1..Len(threads)} \cup {idle[i].id : i \in 1..Len(idle)}

\* C38: every call of run_privileged_async leads to its on_done being
\* called, once and never a second time, by the main loop, with the
\* (ok, msg) its run_privileged returned; and from the call on it stays in
\* flight until then, whatever calls follow it.
CallbackExactlyOnce ==
    /\ [](\A c \in Calls :
            /\ applied[c].calls <= 1
            /\ applied[c].calls = 1 =>
                  /\ pc[c] = CalledBack
                  /\ applied[c].ok = result[c].ok
                  /\ applied[c].msg = result[c].msg
                  /\ applied[c].on = MainLoop)
    /\ \A c \in Calls : (pc[c] # NotCalled) ~> (applied[c].calls = 1)
    /\ [][\A c \in Calls :
            /\ pc[c] \in {InWorker, Queued} => (c \in InFlight /\ applied[c].calls = 0)
            /\ c \in InFlight =>
                  (c \in InFlight' \/ applied'[c].calls = applied[c].calls + 1)]_vars

\* all the calls of the bound were made, a worker returned success and
\* another failure, and each on_done has run, once
CallbackExactlyOnceWitness ==
    /\ \A c \in Calls : pc[c] = CalledBack /\ applied[c].calls = 1
    /\ result[1].ok
    /\ ~result[2].ok
    /\ idle = <<>>
    /\ threads = <<>>

============================================================================
